---------------------------- MODULE Spec2Model ----------------------------
(***************************************************************************)
(* Verification model of the kernel-sync crate: RcuLock over ArcRcu        *)
(* (src/src/rculock.rs, src/src/arcrcu.rs), SpinMutex (src/src/spin.rs)    *)
(* and TicketMutex (src/src/ticket.rs).                                    *)
(*                                                                         *)
(* Every atomic access of the source is one step of the thread that makes  *)
(* it; atomics are interleaved sequentially consistently.  A raw pointer   *)
(* into the RCU version list is Null (0) for &inner.list.value and n > 0   *)
(* for the value cell of heap node n.  Each lock has its own              *)
(* specification; the variables of the other locks stay at their initial   *)
(* values.                                                                 *)
(***************************************************************************)
EXTENDS Integers, Sequences, FiniteSets, TLC

\* ------------------------------------------------------------------ bounds
NThreads == 2
MaxReadGuards == 1
MaxIncs == 2
MaxNodes == 2
TicketBits == 2
MaxDepth == 3
MaxNoff == 4
MaxRwGuards == 2
MaxOvertake == 2

Threads == 1..NThreads
NodeIds == 1..MaxNodes
GuardSlots == 1..MaxReadGuards
Null == 0
TicketModulus == 2 ^ TicketBits
TicketMax == TicketModulus - 1
TicketValues == 0..TicketMax

\* ------------------------------------------------------------- RCU state
VARIABLES
    value,                       \* inner.list.value
    next,                        \* inner.list.next (Null or a node)
    node_live,                   \* heap: node is an allocated Box<List<T>>
    node_value,                  \* heap: (*node).value
    node_next,                   \* heap: (*node).next
    am_writing,                  \* inner.am_writing
    borrow_count,                \* inner.borrow_count[0..1]
    current_borrow_count_index,  \* inner.current_borrow_count_index
    rpc,                         \* per thread: position inside an RcuLock operation
    r_index,                     \* per thread: `index` local of read()
    r_fresh,                     \* history, per thread: read() loaded the index while a writer was past its toggle and still waiting
    read_guards,                 \* per thread: its RcuLockReadGuard variables
    wg,                          \* per thread: its RcuLockWriteGuard (and Guard inside)
    c_next,                      \* per thread: `next` local of clean()
    buffer,                      \* per thread: `buffer` local of clean()
    to_be_freed,                 \* per thread: `_to_be_freed` local of clean()
    committed,                   \* history: final value of the last released write guard
    released,                    \* history: the initial value and every released final value
    total_incs,                  \* history: number of `*guard += 1` performed
    double_free                  \* history: a Box was freed twice

\* ------------------------------------------------------- SpinMutex state
VARIABLES
    locked,                      \* SpinMutex.locked
    data,                        \* SpinMutex.data, a counter
    spc,                         \* per thread: position inside a SpinMutex operation
    spin_guards,                 \* per thread: number of SpinMutexGuards it holds
    s_tmp,                       \* per thread: the value read by `*guard += 1`
    spin_incs,                   \* history: number of `*guard += 1` started
    spin_forgotten,              \* per thread: guards it passed to mem::forget, lock still held
    overtaken                    \* history, per thread: acquisitions by others since its lock() began

\* ----------------------------------------------------- TicketMutex state
VARIABLES
    next_ticket,                 \* TicketMutex.next_ticket
    next_serving,                \* TicketMutex.next_serving
    tpc,                         \* per thread: position inside a TicketMutex operation
    ticket,                      \* per thread: `ticket` local of lock() / try_lock()
    ticket_guards,               \* per thread: how many live TicketMutexGuards it holds with each ticket
    next_expected,               \* history: the ticket after that of the guard acquired last, unwrapped
    wrapped,                     \* history: next_ticket has wrapped around
    overflow_checks,             \* the build panics on `ticket + 1` overflow (debug profile)
    ticket_forgotten,            \* per thread: guards it passed to mem::forget, by ticket
    ticket_data                  \* TicketMutex.data, a counter

\* ------------------------------------------------------ LockAction state
VARIABLES
    lock_depth                   \* per thread: before_lock calls minus after_lock calls

\* ------------------------------------------------------------ RwLock state
VARIABLES
    rw_writer,                   \* WRITER bit of the state word
    rw_upgradable,               \* UPGRADABLE-READER bit of the state word
    rw_readers,                  \* READER count of the state word
    rwpc,                        \* per thread: position inside an RwLock call
    rw_guards                    \* per thread, per kind: guards held

\* ------------------------------------- one CPU of the kernel's LockAction
VARIABLES
    sie,                         \* sstatus.SIE: interrupts are enabled
    noff,                        \* Cpu.noff
    interrupt_enable,            \* Cpu.interrupt_enable
    kpc,                         \* position inside push_off / pop_off
    old,                         \* `old` local of push_off
    should_enable,               \* `should_enable` local of pop_off
    open_pushes,                 \* history: push_off calls minus pop_off calls
    intr_before,                 \* history: sie before the first push_off of the nest
    intr_misuse                  \* history: interrupts were enabled by hand inside a nest

cellVars == << value, next >>
heapVars == << node_live, node_value, node_next >>
countVars == << borrow_count, current_borrow_count_index >>
readVars == << r_index, r_fresh, read_guards >>
cleanVars == << c_next, buffer, to_be_freed >>
histVars == << committed, total_incs, double_free, released >>

rcuVars == << cellVars, heapVars, am_writing, countVars, rpc, readVars, wg,
              cleanVars, histVars >>

spinVars == << locked, data, spc, spin_guards, s_tmp, spin_incs,
              spin_forgotten, overtaken >>

ticketVars == << next_ticket, next_serving, tpc, ticket, ticket_guards,
                 next_expected, wrapped, overflow_checks, ticket_forgotten,
                 ticket_data >>

cpuVars == << sie, noff, interrupt_enable, kpc, old, should_enable,
             open_pushes, intr_before, intr_misuse >>

rwVars == << rw_writer, rw_upgradable, rw_readers, rwpc, rw_guards >>

vars == << rcuVars, spinVars, ticketVars, rwVars, lock_depth, cpuVars >>

\* an empty guard variable of a thread
NoRG == [live |-> FALSE, borrow_count_index |-> 0, data |-> Null, seen |-> 0]

NoWG == [st |-> "none", src |-> Null, list_value |-> 0, list_next |-> Null,
         borrow_count_index |-> 0]

\* L::before_lock() / L::after_lock() on thread t
\* the depth is capped at MaxDepth to keep the state space finite
before_lock(t) ==
    /\ lock_depth[t] < MaxDepth
    /\ lock_depth' = [lock_depth EXCEPT ![t] = @ + 1]
after_lock(t) == lock_depth' = [lock_depth EXCEPT ![t] = @ - 1]

\* what a raw pointer p into the version list reads
Content(p) == IF p = Null THEN value ELSE node_value[p]

\* ArcRcu::deref: the pointer selected by the load of next
Deref == next

InitRcu ==
    /\ value = 0
    /\ next = Null
    /\ node_live = [n \in NodeIds |-> FALSE]
    /\ node_value = [n \in NodeIds |-> 0]
    /\ node_next = [n \in NodeIds |-> Null]
    /\ am_writing = FALSE
    /\ borrow_count = [i \in 0..1 |-> 0]
    /\ current_borrow_count_index = 0
    /\ rpc = [t \in Threads |-> "idle"]
    /\ r_index = [t \in Threads |-> 0]
    /\ r_fresh = [t \in Threads |-> FALSE]
    /\ read_guards = [t \in Threads |-> [k \in GuardSlots |-> NoRG]]
    /\ wg = [t \in Threads |-> NoWG]
    /\ c_next = [t \in Threads |-> Null]
    /\ buffer = [t \in Threads |-> 0]
    /\ to_be_freed = [t \in Threads |-> Null]
    /\ committed = 0
    /\ released = {0}
    /\ total_incs = 0
    /\ double_free = FALSE

InitLockAction == lock_depth = [t \in Threads |-> 0]

GuardKinds == {"read", "write", "upgradable"}

\* RwLock::new: no bit set, no reader, no guard
InitRw ==
    /\ rw_writer = FALSE
    /\ rw_upgradable = FALSE
    /\ rw_readers = 0
    /\ rwpc = [t \in Threads |-> "idle"]
    /\ rw_guards = [t \in Threads |-> [k \in GuardKinds |-> 0]]

\* Cpu::new, nothing in progress; sie is the hardware's
InitCpu ==
    /\ sie \in BOOLEAN
    /\ noff = 0
    /\ interrupt_enable = FALSE
    /\ kpc = "idle"
    /\ old = FALSE
    /\ should_enable = FALSE
    /\ open_pushes = 0
    /\ intr_before = sie
    /\ intr_misuse = FALSE

InitCpuOff == InitCpu /\ sie = FALSE

InitSpin ==
    /\ locked = FALSE
    /\ data = 0
    /\ spc = [t \in Threads |-> "idle"]
    /\ spin_guards = [t \in Threads |-> 0]
    /\ s_tmp = [t \in Threads |-> 0]
    /\ spin_incs = 0
    /\ spin_forgotten = [t \in Threads |-> 0]
    /\ overtaken = [t \in Threads |-> 0]

InitTicketCounters ==
    /\ next_ticket = 0
    /\ next_serving = 0
    /\ tpc = [t \in Threads |-> "idle"]
    /\ ticket = [t \in Threads |-> 0]
    /\ ticket_guards = [t \in Threads |-> [k \in TicketValues |-> 0]]
    /\ next_expected = 0
    /\ wrapped = FALSE
    /\ ticket_forgotten = [t \in Threads |-> [k \in TicketValues |-> 0]]
    /\ ticket_data = 0

InitTicket == InitTicketCounters /\ overflow_checks = FALSE

\* thread t moves to position p
Goto(t, p) == rpc' = [rpc EXCEPT ![t] = p]

\* the guard variable a new read guard of thread t is bound to
FreeSlot(t) == CHOOSE k \in GuardSlots :
    /\ ~read_guards[t][k].live
    /\ \A j \in GuardSlots : j < k => read_guards[t][j].live

\* ------------------------------------------------------- RcuLock::read
ReadCall(t) ==
    /\ rpc[t] = "idle"
    /\ \E k \in GuardSlots : ~read_guards[t][k].live
    /\ before_lock(t)
    /\ Goto(t, "r_load")
    /\ UNCHANGED << rwVars, cpuVars, spinVars, ticketVars, cellVars, heapVars, am_writing, countVars, readVars, wg,
                    cleanVars, histVars >>

ReadLoadIndex(t) ==
    /\ rpc[t] = "r_load"
    /\ r_index' = [r_index EXCEPT ![t] = current_borrow_count_index]
    /\ r_fresh' = [r_fresh EXCEPT ![t] = \E u \in Threads : rpc[u] \in {"d_dec", "d_wait"}]
    /\ Goto(t, "r_inc")
    /\ UNCHANGED << rwVars, cpuVars, spinVars, ticketVars, cellVars, heapVars, am_writing, countVars, read_guards,
                    wg, cleanVars, histVars, lock_depth >>

ReadFetchAdd(t) ==
    /\ rpc[t] = "r_inc"
    /\ borrow_count' = [borrow_count EXCEPT ![r_index[t]] = @ + 1]
    /\ Goto(t, "r_deref")
    /\ UNCHANGED << rwVars, cpuVars, spinVars, ticketVars, cellVars, heapVars, am_writing,
                    current_borrow_count_index, readVars, wg,
                    cleanVars, histVars, lock_depth >>

ReadDeref(t) ==
    /\ rpc[t] = "r_deref"
    /\ read_guards' = [read_guards EXCEPT ![t][FreeSlot(t)] =
           [live |-> TRUE,
            borrow_count_index |-> r_index[t],
            data |-> Deref,
            seen |-> Content(Deref)]]
    /\ r_index' = [r_index EXCEPT ![t] = 0]
    /\ r_fresh' = [r_fresh EXCEPT ![t] = FALSE]
    /\ Goto(t, "idle")
    /\ UNCHANGED << rwVars, cpuVars, spinVars, ticketVars, cellVars, heapVars, am_writing, countVars, wg,
                    cleanVars, histVars, lock_depth >>

\* mutant of ReadGuardDrop: the current slot is decremented, not the
\* recorded one
ReadGuardDrop_CurrentSlot(t) ==
    /\ rpc[t] = "idle"
    /\ \E k \in GuardSlots :
          /\ read_guards[t][k].live
          /\ borrow_count' = [borrow_count EXCEPT
                 ![current_borrow_count_index] = @ - 1]
          /\ read_guards' = [read_guards EXCEPT ![t][k] = NoRG]
    /\ after_lock(t)
    /\ UNCHANGED << rwVars, cpuVars, spinVars, ticketVars, cellVars, heapVars, am_writing,
                    current_borrow_count_index, rpc, r_index, r_fresh, wg, cleanVars,
                    histVars >>

\* RcuLockReadGuard::drop
ReadGuardDrop(t) ==
    /\ rpc[t] = "idle"
    /\ \E k \in GuardSlots :
          /\ read_guards[t][k].live
          /\ borrow_count' = [borrow_count EXCEPT
                 ![read_guards[t][k].borrow_count_index] = @ - 1]
          /\ read_guards' = [read_guards EXCEPT ![t][k] = NoRG]
    /\ after_lock(t)
    /\ UNCHANGED << rwVars, cpuVars, spinVars, ticketVars, cellVars, heapVars, am_writing,
                    current_borrow_count_index, rpc, r_index, r_fresh, wg, cleanVars,
                    histVars >>

\* ------------------------------------- RcuLock::write / RcuLock::try_write
WriteCall(t) ==
    /\ rpc[t] = "idle"
    /\ wg[t].st = "none"
    /\ before_lock(t)
    /\ Goto(t, "w_swap")
    /\ UNCHANGED << rwVars, cpuVars, spinVars, ticketVars, cellVars, heapVars, am_writing, countVars, readVars, wg,
                    cleanVars, histVars >>

TryWriteCall(t) ==
    /\ rpc[t] = "idle"
    /\ before_lock(t)
    /\ Goto(t, "tw_swap")
    /\ UNCHANGED << rwVars, cpuVars, spinVars, ticketVars, cellVars, heapVars, am_writing, countVars, readVars, wg,
                    cleanVars, histVars >>

\* mutant of TryUpdate: the old value of am_writing is not tested
TryUpdate_NoTest(t) ==
    /\ rpc[t] \in {"w_swap", "tw_swap"}
    /\ am_writing' = TRUE
    /\ Goto(t, "w_deref")
    /\ wg' = [wg EXCEPT ![t] = [NoWG EXCEPT !.st = "acquiring"]]
    /\ UNCHANGED << rwVars, cpuVars, spinVars, ticketVars, cellVars, heapVars, countVars, readVars, cleanVars,
                    histVars, lock_depth >>

\* ArcRcu::try_update, the swap of am_writing; on None write() spins and
\* try_write() goes on to its None arm
TryUpdate(t) ==
    /\ rpc[t] \in {"w_swap", "tw_swap"}
    /\ am_writing' = TRUE
    /\ IF am_writing
         THEN /\ Goto(t, IF rpc[t] = "tw_swap" THEN "tw_none" ELSE "w_swap")
              /\ UNCHANGED wg
         ELSE /\ Goto(t, "w_deref")
              /\ wg' = [wg EXCEPT ![t] = [NoWG EXCEPT !.st = "acquiring"]]
    /\ UNCHANGED << rwVars, cpuVars, spinVars, ticketVars, cellVars, heapVars, countVars, readVars, cleanVars,
                    histVars, lock_depth >>

\* mutant of TryWriteNone: the None arm returns without after_lock
TryWriteNone_NoAfterLock(t) ==
    /\ rpc[t] = "tw_none"
    /\ Goto(t, "idle")
    /\ UNCHANGED << rwVars, cpuVars, spinVars, ticketVars, cellVars, heapVars, am_writing, countVars, readVars, wg,
                    cleanVars, histVars, lock_depth >>

\* try_write: None => { L::after_lock(); None }
TryWriteNone(t) ==
    /\ rpc[t] = "tw_none"
    /\ after_lock(t)
    /\ Goto(t, "idle")
    /\ UNCHANGED << rwVars, cpuVars, spinVars, ticketVars, cellVars, heapVars, am_writing, countVars, readVars, wg,
                    cleanVars, histVars >>

\* try_update: (*(*self)).clone() first dereferences the ArcRcu ...
UpdateDeref(t) ==
    /\ rpc[t] = "w_deref"
    /\ wg' = [wg EXCEPT ![t].src = Deref]
    /\ Goto(t, "w_clone")
    /\ UNCHANGED << rwVars, cpuVars, spinVars, ticketVars, cellVars, heapVars, am_writing, countVars, readVars,
                    cleanVars, histVars, lock_depth >>

\* ... then clones the value it points to into the guard's List
UpdateClone(t) ==
    /\ rpc[t] = "w_clone"
    /\ wg' = [wg EXCEPT ![t].list_value = Content(wg[t].src)]
    /\ Goto(t, "w_next")
    /\ UNCHANGED << rwVars, cpuVars, spinVars, ticketVars, cellVars, heapVars, am_writing, countVars, readVars,
                    cleanVars, histVars, lock_depth >>

\* try_update: next: AtomicPtr::new(self.inner.list.next.load(Acquire))
UpdateLoadNext(t) ==
    /\ rpc[t] = "w_next"
    /\ wg' = [wg EXCEPT ![t].list_next = next, ![t].src = Null]
    /\ Goto(t, "w_load")
    /\ UNCHANGED << rwVars, cpuVars, spinVars, ticketVars, cellVars, heapVars, am_writing, countVars, readVars,
                    cleanVars, histVars, lock_depth >>

WriteLoadIndex(t) ==
    /\ rpc[t] = "w_load"
    /\ wg' = [wg EXCEPT ![t].borrow_count_index = current_borrow_count_index]
    /\ Goto(t, "w_inc")
    /\ UNCHANGED << rwVars, cpuVars, spinVars, ticketVars, cellVars, heapVars, am_writing, countVars, readVars,
                    cleanVars, histVars, lock_depth >>

WriteFetchAdd(t) ==
    /\ rpc[t] = "w_inc"
    /\ borrow_count' = [borrow_count EXCEPT ![wg[t].borrow_count_index] = @ + 1]
    /\ wg' = [wg EXCEPT ![t].st = "held"]
    /\ Goto(t, "idle")
    /\ UNCHANGED << rwVars, cpuVars, spinVars, ticketVars, cellVars, heapVars, am_writing,
                    current_borrow_count_index, readVars,
                    cleanVars, histVars, lock_depth >>

\* the holder's `*guard += 1` through RcuLockWriteGuard::deref_mut
GuardAddOne(t) ==
    /\ rpc[t] = "idle"
    /\ wg[t].st = "held"
    /\ total_incs < MaxIncs
    /\ wg' = [wg EXCEPT ![t].list_value = @ + 1]
    /\ total_incs' = total_incs + 1
    /\ UNCHANGED << rwVars, cpuVars, spinVars, ticketVars, cellVars, heapVars, am_writing, countVars, rpc, readVars,
                    cleanVars, committed, double_free, released, lock_depth >>

\* ------------------------------------------------ RcuLockWriteGuard::drop
\* drop(guard.unwrap()) runs Guard::drop: box the working List and store
\* the pointer into inner.list.next
GuardDrop(t) ==
    /\ rpc[t] = "idle"
    /\ wg[t].st = "held"
    /\ \E n \in NodeIds :
          /\ ~node_live[n]
          /\ node_live' = [node_live EXCEPT ![n] = TRUE]
          /\ node_value' = [node_value EXCEPT ![n] = wg[t].list_value]
          /\ node_next' = [node_next EXCEPT ![n] = wg[t].list_next]
          /\ next' = n
    /\ committed' = wg[t].list_value
    /\ released' = released \cup {wg[t].list_value}
    /\ wg' = [wg EXCEPT ![t].st = "releasing", ![t].list_value = 0,
                        ![t].list_next = Null]
    /\ Goto(t, "d_toggle")
    /\ UNCHANGED << rwVars, cpuVars, spinVars, ticketVars, value, am_writing, countVars, readVars, cleanVars,
                    total_incs, double_free, lock_depth >>

\* mutant of DropToggle: the index is not toggled
DropToggle_NoToggle(t) ==
    /\ rpc[t] = "d_toggle"
    /\ Goto(t, "d_dec")
    /\ UNCHANGED << rwVars, cpuVars, spinVars, ticketVars, cellVars, heapVars, am_writing, countVars, readVars,
                    wg, cleanVars, histVars, lock_depth >>

\* current_borrow_count_index.fetch_xor(1, AcqRel)
DropToggle(t) ==
    /\ rpc[t] = "d_toggle"
    /\ current_borrow_count_index' = 1 - current_borrow_count_index
    /\ Goto(t, "d_dec")
    /\ UNCHANGED << rwVars, cpuVars, spinVars, ticketVars, cellVars, heapVars, am_writing, borrow_count, readVars,
                    wg, cleanVars, histVars, lock_depth >>

DropFetchSub(t) ==
    /\ rpc[t] = "d_dec"
    /\ borrow_count' = [borrow_count EXCEPT ![wg[t].borrow_count_index] = @ - 1]
    /\ Goto(t, "d_wait")
    /\ UNCHANGED << rwVars, cpuVars, spinVars, ticketVars, cellVars, heapVars, am_writing,
                    current_borrow_count_index, readVars, wg,
                    cleanVars, histVars, lock_depth >>

\* mutant of DropWait: clean() is entered without looking at the slot
DropWait_NoWait(t) ==
    /\ rpc[t] = "d_wait"
    /\ Goto(t, "c_load")
    /\ r_fresh' = [u \in Threads |-> FALSE]
    /\ UNCHANGED << rwVars, cpuVars, spinVars, ticketVars, cellVars, heapVars, am_writing, countVars, r_index,
                    read_guards, wg, cleanVars, histVars, lock_depth >>

\* while borrow_count[self.borrow_count_index].load(Acquire) > 0 { spin_loop() }
DropWait(t) ==
    /\ rpc[t] = "d_wait"
    /\ IF borrow_count[wg[t].borrow_count_index] > 0
         THEN Goto(t, "d_wait") /\ UNCHANGED r_fresh
         ELSE Goto(t, "c_load") /\ r_fresh' = [u \in Threads |-> FALSE]
    /\ UNCHANGED << rwVars, cpuVars, spinVars, ticketVars, cellVars, heapVars, am_writing, countVars, r_index,
                    read_guards, wg, cleanVars, histVars, lock_depth >>

\* ---------------------------------------------------------- ArcRcu::clean
CleanLoad(t) ==
    /\ rpc[t] = "c_load"
    /\ c_next' = [c_next EXCEPT ![t] = next]
    /\ Goto(t, IF next # Null THEN "c_buf" ELSE "d_unlock")
    /\ UNCHANGED << rwVars, cpuVars, spinVars, ticketVars, cellVars, heapVars, am_writing, countVars, readVars, wg,
                    buffer, to_be_freed, histVars, lock_depth >>

\* copy_nonoverlapping(list.value, buffer)
CleanBuffer(t) ==
    /\ rpc[t] = "c_buf"
    /\ buffer' = [buffer EXCEPT ![t] = value]
    /\ Goto(t, "c_promote")
    /\ UNCHANGED << rwVars, cpuVars, spinVars, ticketVars, cellVars, heapVars, am_writing, countVars, readVars, wg,
                    c_next, to_be_freed, histVars, lock_depth >>

\* mutant of CleanPromote: the successor's value is not copied
CleanPromote_Skip(t) ==
    /\ rpc[t] = "c_promote"
    /\ Goto(t, "c_null")
    /\ UNCHANGED << rwVars, cpuVars, spinVars, ticketVars, cellVars, heapVars, am_writing, countVars, readVars, wg,
                    cleanVars, histVars, lock_depth >>

\* copy_nonoverlapping((*next).value, list.value)
CleanPromote(t) ==
    /\ rpc[t] = "c_promote"
    /\ value' = node_value[c_next[t]]
    /\ Goto(t, "c_null")
    /\ UNCHANGED << rwVars, cpuVars, spinVars, ticketVars, next, heapVars, am_writing, countVars, readVars, wg,
                    cleanVars, histVars, lock_depth >>

\* mutant of CleanSwapNull: the Box is taken but next is left in place
CleanSwapNull_Keep(t) ==
    /\ rpc[t] = "c_null"
    /\ to_be_freed' = [to_be_freed EXCEPT ![t] = next]
    /\ Goto(t, "c_restore")
    /\ UNCHANGED << rwVars, cpuVars, spinVars, ticketVars, cellVars, heapVars, am_writing, countVars, readVars, wg,
                    c_next, buffer, histVars, lock_depth >>

\* Box::from_raw(list.next.swap(null_mut(), Release))
CleanSwapNull(t) ==
    /\ rpc[t] = "c_null"
    /\ to_be_freed' = [to_be_freed EXCEPT ![t] = next]
    /\ next' = Null
    /\ Goto(t, "c_restore")
    /\ UNCHANGED << rwVars, cpuVars, spinVars, ticketVars, value, heapVars, am_writing, countVars, readVars, wg,
                    c_next, buffer, histVars, lock_depth >>

\* copy_nonoverlapping(buffer, (*next).value)
CleanRestore(t) ==
    /\ rpc[t] = "c_restore"
    /\ node_value' = [node_value EXCEPT ![c_next[t]] = buffer[t]]
    /\ Goto(t, "c_free")
    /\ UNCHANGED << rwVars, cpuVars, spinVars, ticketVars, cellVars, node_live, node_next, am_writing, countVars,
                    readVars, wg, cleanVars, histVars,
                    lock_depth >>

\* the nodes List::drop frees when the Box holding node n is dropped
RECURSIVE Chain(_, _)
Chain(n, fuel) ==
    IF n = Null \/ fuel = 0 THEN {}
    ELSE {n} \cup Chain(node_next[n], fuel - 1)

\* mutant of CleanFree: the Box is forgotten, not dropped
CleanFree_Leak(t) ==
    /\ rpc[t] = "c_free"
    /\ Goto(t, "d_unlock")
    /\ UNCHANGED << rwVars, cpuVars, spinVars, ticketVars, cellVars, heapVars, am_writing, countVars, readVars, wg,
                    cleanVars, histVars, lock_depth >>

\* end of the unsafe block: _to_be_freed goes out of scope
CleanFree(t) ==
    /\ rpc[t] = "c_free"
    /\ LET freed == Chain(to_be_freed[t], MaxNodes) IN
          /\ node_live' = [n \in NodeIds |-> node_live[n] /\ n \notin freed]
          /\ node_value' = [n \in NodeIds |-> IF n \in freed THEN 0 ELSE node_value[n]]
          /\ node_next' = [n \in NodeIds |-> IF n \in freed THEN Null ELSE node_next[n]]
          /\ double_free' = (double_free \/ \E n \in freed : ~node_live[n])
    /\ Goto(t, "d_unlock")
    /\ UNCHANGED << rwVars, cpuVars, spinVars, ticketVars, cellVars, am_writing, countVars, readVars, wg,
                    cleanVars, committed, total_incs, released, lock_depth >>

\* mutant of DropUnlock: am_writing is not cleared
DropUnlock_KeepFlag(t) ==
    /\ rpc[t] = "d_unlock"
    /\ after_lock(t)
    /\ wg' = [wg EXCEPT ![t] = NoWG]
    /\ c_next' = [c_next EXCEPT ![t] = Null]
    /\ buffer' = [buffer EXCEPT ![t] = 0]
    /\ to_be_freed' = [to_be_freed EXCEPT ![t] = Null]
    /\ Goto(t, "idle")
    /\ UNCHANGED << rwVars, cpuVars, spinVars, ticketVars, cellVars, heapVars, am_writing, countVars, readVars,
                    histVars >>

\* am_writing.store(false, Relaxed); L::after_lock()
DropUnlock(t) ==
    /\ rpc[t] = "d_unlock"
    /\ am_writing' = FALSE
    /\ after_lock(t)
    /\ wg' = [wg EXCEPT ![t] = NoWG]
    /\ c_next' = [c_next EXCEPT ![t] = Null]
    /\ buffer' = [buffer EXCEPT ![t] = 0]
    /\ to_be_freed' = [to_be_freed EXCEPT ![t] = Null]
    /\ Goto(t, "idle")
    /\ UNCHANGED << rwVars, cpuVars, spinVars, ticketVars, cellVars, heapVars, countVars, readVars,
                    histVars >>

\* a step inside an operation thread t has started
RcuStep(t) ==
    \/ ReadLoadIndex(t) \/ ReadFetchAdd(t) \/ ReadDeref(t)
    \/ TryUpdate(t) \/ TryWriteNone(t)
    \/ UpdateDeref(t) \/ UpdateClone(t) \/ UpdateLoadNext(t)
    \/ WriteLoadIndex(t) \/ WriteFetchAdd(t)
    \/ DropToggle(t) \/ DropFetchSub(t) \/ DropWait(t)
    \/ CleanLoad(t) \/ CleanBuffer(t) \/ CleanPromote(t)
    \/ CleanSwapNull(t) \/ CleanRestore(t) \/ CleanFree(t)
    \/ DropUnlock(t)

\* what the program using the lock decides to do next on thread t
RcuClient(t) ==
    \/ ReadCall(t) \/ ReadGuardDrop(t)
    \/ WriteCall(t) \/ TryWriteCall(t)
    \/ GuardAddOne(t) \/ GuardDrop(t)

NextRcu == \E t \in Threads : RcuStep(t) \/ RcuClient(t)

Init == InitRcu /\ InitSpin /\ InitTicket /\ InitRw /\ InitLockAction /\ InitCpuOff
Spec == Init /\ [][NextRcu]_vars

\* threads that are inside an operation keep running
FairSpec == Spec /\ \A t \in Threads : WF_vars(RcuStep(t))

\* --------------------------------------------------------------- SpinMutex
SpinGoto(t, p) == spc' = [spc EXCEPT ![t] = p]

\* thread t has acquired: every other thread inside lock() was overtaken
Overtake(t) ==
    overtaken' = [u \in Threads |->
        IF u = t THEN 0
        ELSE IF spc[u] \in {"s_cas", "s_spin"} /\ overtaken[u] < MaxOvertake
             THEN overtaken[u] + 1
             ELSE overtaken[u]]

\* SpinMutex::lock, L::before_lock()
SpinLockCall(t) ==
    /\ spc[t] = "idle"
    /\ before_lock(t)
    /\ SpinGoto(t, "s_cas")
    /\ overtaken' = [overtaken EXCEPT ![t] = 0]
    /\ UNCHANGED << rwVars, cpuVars, rcuVars, ticketVars, spin_forgotten, locked, data, spin_guards, s_tmp,
                    spin_incs >>

\* mutant of SpinCas: the flag is set without comparing it with false
SpinCas_NoCompare(t) ==
    /\ spc[t] = "s_cas"
    /\ locked' = TRUE
    /\ spin_guards' = [spin_guards EXCEPT ![t] = @ + 1]
    /\ SpinGoto(t, "idle")
    /\ Overtake(t)
    /\ UNCHANGED << rwVars, cpuVars, rcuVars, ticketVars, spin_forgotten, data, s_tmp, spin_incs, lock_depth >>

\* lock: compare_exchange_weak(false, true, Acquire, Relaxed); it fails when
\* locked is true and may fail spuriously when it is false
SpinCas(t) ==
    /\ spc[t] = "s_cas"
    /\ \/ /\ ~locked
          /\ locked' = TRUE
          /\ spin_guards' = [spin_guards EXCEPT ![t] = @ + 1]
          /\ SpinGoto(t, "idle")
          /\ Overtake(t)
       \/ /\ SpinGoto(t, "s_spin")
          /\ UNCHANGED << locked, spin_guards, overtaken >>
    /\ UNCHANGED << rwVars, cpuVars, rcuVars, ticketVars, spin_forgotten, data, s_tmp, spin_incs, lock_depth >>

\* mutant of SpinWait: the inner loop never sees the lock free
SpinWait_Blind(t) ==
    /\ spc[t] = "s_spin"
    /\ SpinGoto(t, "s_spin")
    /\ UNCHANGED << rwVars, cpuVars, rcuVars, ticketVars, overtaken, spin_forgotten, locked, data, spin_guards, s_tmp,
                    spin_incs, lock_depth >>

\* lock: while self.is_locked() { spin_loop() }
SpinWait(t) ==
    /\ spc[t] = "s_spin"
    /\ SpinGoto(t, IF locked THEN "s_spin" ELSE "s_cas")
    /\ UNCHANGED << rwVars, cpuVars, rcuVars, ticketVars, overtaken, spin_forgotten, locked, data, spin_guards, s_tmp,
                    spin_incs, lock_depth >>

\* SpinMutex::try_lock, L::before_lock()
SpinTryLockCall(t) ==
    /\ spc[t] = "idle"
    /\ before_lock(t)
    /\ SpinGoto(t, "st_cas")
    /\ UNCHANGED << rwVars, cpuVars, rcuVars, ticketVars, overtaken, spin_forgotten, locked, data, spin_guards, s_tmp,
                    spin_incs >>

\* mutant of SpinTryCas: compare_exchange_weak, which may fail spuriously
SpinTryCas_Weak(t) ==
    /\ spc[t] = "st_cas"
    /\ \/ /\ ~locked
          /\ locked' = TRUE
          /\ spin_guards' = [spin_guards EXCEPT ![t] = @ + 1]
          /\ SpinGoto(t, "idle")
          /\ Overtake(t)
       \/ /\ SpinGoto(t, "st_none")
          /\ UNCHANGED << locked, spin_guards, overtaken >>
    /\ UNCHANGED << rwVars, cpuVars, rcuVars, ticketVars, spin_forgotten, data, s_tmp, spin_incs, lock_depth >>

\* try_lock: compare_exchange(false, true, Acquire, Relaxed)
SpinTryCas(t) ==
    /\ spc[t] = "st_cas"
    /\ IF ~locked
         THEN /\ locked' = TRUE
              /\ spin_guards' = [spin_guards EXCEPT ![t] = @ + 1]
              /\ SpinGoto(t, "idle")
              /\ Overtake(t)
         ELSE /\ SpinGoto(t, "st_none")
              /\ UNCHANGED << locked, spin_guards, overtaken >>
    /\ UNCHANGED << rwVars, cpuVars, rcuVars, ticketVars, spin_forgotten, data, s_tmp, spin_incs, lock_depth >>

\* try_lock: else { L::after_lock(); None }
SpinTryNone(t) ==
    /\ spc[t] = "st_none"
    /\ after_lock(t)
    /\ SpinGoto(t, "idle")
    /\ UNCHANGED << rwVars, cpuVars, rcuVars, ticketVars, overtaken, spin_forgotten, locked, data, spin_guards, s_tmp,
                    spin_incs >>

\* SpinMutexGuard::drop
SpinGuardDrop(t) ==
    /\ spc[t] = "idle"
    /\ spin_guards[t] > 0
    /\ locked' = FALSE
    /\ after_lock(t)
    /\ spin_guards' = [spin_guards EXCEPT ![t] = @ - 1]
    /\ UNCHANGED << rwVars, cpuVars, rcuVars, ticketVars, overtaken, spin_forgotten, data, spc, s_tmp, spin_incs >>

\* the holder's `*guard += 1`: read the counter through the guard ...
SpinReadData(t) ==
    /\ spc[t] = "idle"
    /\ spin_guards[t] > 0
    /\ spin_incs < MaxIncs
    /\ s_tmp' = [s_tmp EXCEPT ![t] = data]
    /\ spin_incs' = spin_incs + 1
    /\ SpinGoto(t, "s_add")
    /\ UNCHANGED << rwVars, cpuVars, rcuVars, ticketVars, overtaken, spin_forgotten, locked, data, spin_guards,
                    lock_depth >>

\* ... and write it back incremented
SpinWriteData(t) ==
    /\ spc[t] = "s_add"
    /\ data' = s_tmp[t] + 1
    /\ s_tmp' = [s_tmp EXCEPT ![t] = 0]
    /\ SpinGoto(t, "idle")
    /\ UNCHANGED << rwVars, cpuVars, rcuVars, ticketVars, overtaken, spin_forgotten, locked, spin_guards, spin_incs,
                    lock_depth >>

SpinStep(t) ==
    \/ SpinCas(t) \/ SpinWait(t)
    \/ SpinTryCas(t) \/ SpinTryNone(t)
    \/ SpinWriteData(t)

SpinClient(t) ==
    \/ SpinLockCall(t) \/ SpinTryLockCall(t)
    \/ SpinGuardDrop(t) \/ SpinReadData(t)

NextSpin == \E t \in Threads : SpinStep(t) \/ SpinClient(t)

SpinSpec == Init /\ [][NextSpin]_vars

\* the compare_exchange_weak of lock() finds the lock free and takes it
SpinCasWins(t) == SpinCas(t) /\ ~locked /\ spc'[t] = "idle"

\* the compare_exchange_weak of lock() finds the lock free and fails
SpinCasSpurious(t) == SpinCas(t) /\ ~locked /\ spc'[t] = "s_spin"

\* every thread inside a call keeps running, and a compare_exchange_weak
\* that keeps finding the lock free does not fail spuriously for ever
FairSpinSpec ==
    /\ SpinSpec
    /\ \A t \in Threads : WF_vars(SpinStep(t))
    /\ \A t \in Threads :
           []<><<SpinCasSpurious(t)>>_vars => []<><<SpinCasWins(t)>>_vars

\* ------------------------------------------------------------- TicketMutex
\* a guard with ticket k is added to / removed from those thread t holds
TakeGuard(t, k) ==
    ticket_guards' = [ticket_guards EXCEPT ![t][k] = @ + 1]
DropGuard(t, k) ==
    ticket_guards' = [ticket_guards EXCEPT ![t][k] = @ - 1]

TicketGoto(t, p) == tpc' = [tpc EXCEPT ![t] = p]

\* TicketMutex::lock, L::before_lock()
TicketLockCall(t) ==
    /\ tpc[t] = "idle"
    /\ before_lock(t)
    /\ TicketGoto(t, "t_take")
    /\ UNCHANGED << rwVars, cpuVars, rcuVars, spinVars, ticket_forgotten, ticket_data, next_ticket, next_serving, ticket,
                    ticket_guards, next_expected, wrapped, overflow_checks >>

\* lock: let ticket = self.next_ticket.fetch_add(1, Relaxed), which wraps
TicketFetchAdd(t) ==
    /\ tpc[t] = "t_take"
    /\ ticket' = [ticket EXCEPT ![t] = next_ticket]
    /\ next_ticket' = (next_ticket + 1) % TicketModulus
    /\ wrapped' = (wrapped \/ next_ticket = TicketMax)
    /\ TicketGoto(t, "t_spin")
    /\ UNCHANGED << rwVars, cpuVars, rcuVars, spinVars, ticket_forgotten, ticket_data, next_serving, ticket_guards,
                    next_expected, overflow_checks, lock_depth >>

\* lock: while self.next_serving.load(Acquire) != ticket { spin_loop() }
TicketWait(t) ==
    /\ tpc[t] = "t_spin"
    /\ IF next_serving # ticket[t]
         THEN UNCHANGED << tpc, ticket, ticket_guards, next_expected >>
         ELSE /\ TakeGuard(t, ticket[t])
              /\ next_expected' = ticket[t] + 1
              /\ ticket' = [ticket EXCEPT ![t] = 0]
              /\ TicketGoto(t, "idle")
    /\ UNCHANGED << rwVars, cpuVars, rcuVars, spinVars, ticket_forgotten, ticket_data, next_ticket, next_serving, wrapped,
                    overflow_checks, lock_depth >>

\* TicketMutex::try_lock, L::before_lock()
TicketTryLockCall(t) ==
    /\ tpc[t] = "idle"
    /\ before_lock(t)
    /\ TicketGoto(t, "tt_load")
    /\ UNCHANGED << rwVars, cpuVars, rcuVars, spinVars, ticket_forgotten, ticket_data, next_ticket, next_serving, ticket,
                    ticket_guards, next_expected, wrapped, overflow_checks >>

\* fetch_update: let mut prev = self.load(fetch_order)
TicketTryLoad(t) ==
    /\ tpc[t] = "tt_load"
    /\ ticket' = [ticket EXCEPT ![t] = next_ticket]
    /\ TicketGoto(t, "tt_check")
    /\ UNCHANGED << rwVars, cpuVars, rcuVars, spinVars, ticket_forgotten, ticket_data, next_ticket, next_serving,
                    ticket_guards, next_expected, wrapped, overflow_checks,
                    lock_depth >>

\* the closure: if next_serving.load(Acquire) == ticket { Some(ticket + 1) }
\* else { None }; `ticket + 1` panics on overflow when the build checks it
TicketTryCheck(t) ==
    /\ tpc[t] = "tt_check"
    /\ TicketGoto(t, IF next_serving # ticket[t] THEN "tt_none"
                     ELSE IF ticket[t] = TicketMax /\ overflow_checks
                             THEN "panicked"
                             ELSE "tt_cas")
    /\ UNCHANGED << rwVars, cpuVars, rcuVars, spinVars, ticket_forgotten, ticket_data, next_ticket, next_serving, ticket,
                    ticket_guards, next_expected, wrapped, overflow_checks,
                    lock_depth >>

\* fetch_update: compare_exchange_weak(prev, next, SeqCst, SeqCst); on Err
\* (the value differs, or a spurious failure) prev is reloaded
TicketTryCas(t) ==
    /\ tpc[t] = "tt_cas"
    /\ \/ /\ next_ticket = ticket[t]
          /\ next_ticket' = (ticket[t] + 1) % TicketModulus
          /\ wrapped' = (wrapped \/ ticket[t] = TicketMax)
          /\ TakeGuard(t, ticket[t])
          /\ next_expected' = ticket[t] + 1
          /\ ticket' = [ticket EXCEPT ![t] = 0]
          /\ TicketGoto(t, "idle")
       \/ /\ ticket' = [ticket EXCEPT ![t] = next_ticket]
          /\ TicketGoto(t, "tt_check")
          /\ UNCHANGED << next_ticket, wrapped, ticket_guards, next_expected >>
    /\ UNCHANGED << rwVars, cpuVars, rcuVars, spinVars, ticket_forgotten, ticket_data, next_serving, overflow_checks,
                    lock_depth >>

\* try_lock: else { L::after_lock(); None }
TicketTryNone(t) ==
    /\ tpc[t] = "tt_none"
    /\ after_lock(t)
    /\ ticket' = [ticket EXCEPT ![t] = 0]
    /\ TicketGoto(t, "idle")
    /\ UNCHANGED << rwVars, cpuVars, rcuVars, spinVars, ticket_forgotten, ticket_data, next_ticket, next_serving,
                    ticket_guards, next_expected, wrapped, overflow_checks >>

\* TicketMutexGuard::drop: let new_ticket = self.ticket + 1 panics on
\* overflow when the build checks it, before the store and after_lock; the
\* guard is gone either way
TicketGuardDrop(t) ==
    /\ tpc[t] = "idle"
    /\ \E k \in TicketValues :
          /\ ticket_guards[t][k] > 0
          /\ IF k = TicketMax /\ overflow_checks
               THEN /\ TicketGoto(t, "panicked")
                    /\ DropGuard(t, k)
                    /\ UNCHANGED << next_serving, lock_depth >>
               ELSE /\ next_serving' = (k + 1) % TicketModulus
                    /\ DropGuard(t, k)
                    /\ after_lock(t)
                    /\ UNCHANGED tpc
    /\ UNCHANGED << rwVars, cpuVars, rcuVars, spinVars, ticket_forgotten, ticket_data, next_ticket, ticket, next_expected,
                    wrapped, overflow_checks >>

TicketStep(t) ==
    \/ TicketFetchAdd(t) \/ TicketWait(t)
    \/ TicketTryLoad(t) \/ TicketTryCheck(t) \/ TicketTryCas(t)
    \/ TicketTryNone(t)

TicketClient(t) ==
    \/ TicketLockCall(t) \/ TicketTryLockCall(t) \/ TicketGuardDrop(t)

NextTicket == \E t \in Threads : TicketStep(t) \/ TicketClient(t)

\* either build profile
TicketInit ==
    /\ InitRcu /\ InitSpin /\ InitRw /\ InitLockAction /\ InitCpuOff
    /\ InitTicketCounters
    /\ overflow_checks \in BOOLEAN

TicketSpec == TicketInit /\ [][NextTicket]_vars

\* ------------------------------------------- force_unlock and as_mut_ptr
\* core::mem::forget(guard): the guard is gone without its drop running
SpinForget(t) ==
    /\ spc[t] = "idle"
    /\ spin_guards[t] > 0
    /\ spin_guards' = [spin_guards EXCEPT ![t] = @ - 1]
    /\ spin_forgotten' = [spin_forgotten EXCEPT ![t] = @ + 1]
    /\ UNCHANGED << rwVars, cpuVars, rcuVars, ticketVars, overtaken, locked, data, spc, s_tmp, spin_incs,
                    lock_depth >>

\* lock.as_mut_ptr().write(..) by the thread that holds the lock through a
\* forgotten guard
SpinPtrWrite(t) ==
    /\ spc[t] = "idle"
    /\ spin_forgotten[t] > 0
    /\ data < MaxIncs
    /\ data' = data + 1
    /\ UNCHANGED << rwVars, cpuVars, rcuVars, ticketVars, overtaken, locked, spc, spin_guards, s_tmp,
                    spin_incs, spin_forgotten, lock_depth >>

\* SpinMutex::force_unlock, called by a thread that holds the lock through
\* a forgotten guard
SpinForceUnlock(t) ==
    /\ spc[t] = "idle"
    /\ spin_forgotten[t] > 0
    /\ locked' = FALSE
    /\ after_lock(t)
    /\ spin_forgotten' = [spin_forgotten EXCEPT ![t] = @ - 1]
    /\ UNCHANGED << rwVars, cpuVars, rcuVars, ticketVars, overtaken, data, spc, spin_guards, s_tmp,
                    spin_incs >>

TicketForget(t) ==
    /\ tpc[t] = "idle"
    /\ \E k \in TicketValues :
          /\ ticket_guards[t][k] > 0
          /\ DropGuard(t, k)
          /\ ticket_forgotten' = [ticket_forgotten EXCEPT ![t][k] = @ + 1]
    /\ UNCHANGED << rwVars, cpuVars, rcuVars, spinVars, next_ticket, next_serving, tpc, ticket,
                    next_expected, wrapped, overflow_checks, ticket_data,
                    lock_depth >>

TicketPtrWrite(t) ==
    /\ tpc[t] = "idle"
    /\ \E k \in TicketValues : ticket_forgotten[t][k] > 0
    /\ ticket_data < MaxIncs
    /\ ticket_data' = ticket_data + 1
    /\ UNCHANGED << rwVars, cpuVars, rcuVars, spinVars, next_ticket, next_serving, tpc, ticket,
                    ticket_guards, next_expected, wrapped, overflow_checks,
                    ticket_forgotten, lock_depth >>

\* TicketMutex::force_unlock: next_serving.fetch_add(1, Release), which
\* wraps, then after_lock
TicketForceUnlock(t) ==
    /\ tpc[t] = "idle"
    /\ \E k \in TicketValues :
          /\ ticket_forgotten[t][k] > 0
          /\ ticket_forgotten' = [ticket_forgotten EXCEPT ![t][k] = @ - 1]
    /\ next_serving' = (next_serving + 1) % TicketModulus
    /\ after_lock(t)
    /\ UNCHANGED << rwVars, cpuVars, rcuVars, spinVars, next_ticket, tpc, ticket,
                    ticket_guards, next_expected, wrapped, overflow_checks,
                    ticket_data >>

SpinManual(t) == SpinForget(t) \/ SpinPtrWrite(t) \/ SpinForceUnlock(t)

TicketManual(t) ==
    TicketForget(t) \/ TicketPtrWrite(t) \/ TicketForceUnlock(t)

\* TicketMutex used through lock() and guard drops only
TicketLockOnly(t) ==
    \/ TicketLockCall(t) \/ TicketFetchAdd(t) \/ TicketWait(t)
    \/ TicketGuardDrop(t)

\* lock() and guard drops under a scheduler that lets every thread inside
\* lock() take its next step
NextTicketLock == \E t \in Threads : TicketLockOnly(t)

FairTicketSpec ==
    /\ TicketInit
    /\ [][NextTicketLock]_vars
    /\ \A t \in Threads : WF_vars(TicketFetchAdd(t) \/ TicketWait(t))

\* either mutex, locked with lock() (SpinMutex: try_lock() too) and released
\* by guard drops or, with the guard forgotten, by force_unlock
NextForceUnlock ==
    \/ InitTicketCounters /\ (NextSpin \/ \E t \in Threads : SpinManual(t))
    \/ InitSpin /\ (\E t \in Threads : TicketLockOnly(t) \/ TicketManual(t))

ForceUnlockSpec == TicketInit /\ [][NextForceUnlock]_vars

\* ------------------------------------------------------- RwLock operations
RwGoto(t, p) == rwpc' = [rwpc EXCEPT ![t] = p]

RwHeld(t) == rw_guards[t]["read"] + rw_guards[t]["write"] + rw_guards[t]["upgradable"]

RwTake(t, k) == rw_guards' = [rw_guards EXCEPT ![t][k] = @ + 1]

RwGive(t, k) == rw_guards' = [rw_guards EXCEPT ![t][k] = @ - 1]

RwOthers == << rcuVars, spinVars, ticketVars, cpuVars >>

\* read / try_read / write / try_write / upgradable_read: before_lock()
RwCall(t, p) ==
    /\ rwpc[t] = "idle"
    /\ RwHeld(t) < MaxRwGuards
    /\ before_lock(t)
    /\ RwGoto(t, p)
    /\ UNCHANGED << RwOthers, rw_writer, rw_upgradable, rw_readers, rw_guards >>

\* read / try_read: increment READER count if WRITER bit clear
RwReadAcquire(t) ==
    /\ rwpc[t] \in {"read", "try_read"}
    /\ ~rw_writer
    /\ rw_readers' = rw_readers + 1
    /\ RwTake(t, "read")
    /\ RwGoto(t, "idle")
    /\ UNCHANGED << RwOthers, rw_writer, rw_upgradable, lock_depth >>

\* try_read: None while the WRITER bit is set
RwTryReadNone(t) ==
    /\ rwpc[t] = "try_read"
    /\ rw_writer
    /\ after_lock(t)
    /\ RwGoto(t, "idle")
    /\ UNCHANGED << RwOthers, rw_writer, rw_upgradable, rw_readers, rw_guards >>

RwFree == rw_readers = 0 /\ ~rw_writer /\ ~rw_upgradable

\* write / try_write: set WRITER from (READERS=0, WRITER=0, UPGRADABLE=0)
RwWriteAcquire(t) ==
    /\ rwpc[t] \in {"write", "try_write"}
    /\ RwFree
    /\ rw_writer' = TRUE
    /\ RwTake(t, "write")
    /\ RwGoto(t, "idle")
    /\ UNCHANGED << RwOthers, rw_upgradable, rw_readers, lock_depth >>

\* try_write: None unless the lock is free
RwTryWriteNone(t) ==
    /\ rwpc[t] = "try_write"
    /\ ~RwFree
    /\ after_lock(t)
    /\ RwGoto(t, "idle")
    /\ UNCHANGED << RwOthers, rw_writer, rw_upgradable, rw_readers, rw_guards >>

\* mutant of RwUpgradableAcquire: only the UPGRADABLE bit is tested
RwUpgradableAcquire_IgnoreWriter(t) ==
    /\ rwpc[t] = "upgradable_read"
    /\ ~rw_upgradable
    /\ rw_upgradable' = TRUE
    /\ RwTake(t, "upgradable")
    /\ RwGoto(t, "idle")
    /\ UNCHANGED << RwOthers, rw_writer, rw_readers, lock_depth >>

\* upgradable_read: set UPGRADABLE when clear, excluding upgradable and
\* writer holders, coexisting with readers
RwUpgradableAcquire(t) ==
    /\ rwpc[t] = "upgradable_read"
    /\ ~rw_upgradable /\ ~rw_writer
    /\ rw_upgradable' = TRUE
    /\ RwTake(t, "upgradable")
    /\ RwGoto(t, "idle")
    /\ UNCHANGED << RwOthers, rw_writer, rw_readers, lock_depth >>

\* upgrade is called on an upgradable guard
RwUpgradeCall(t) ==
    /\ rwpc[t] = "idle"
    /\ rw_guards[t]["upgradable"] > 0
    /\ RwGoto(t, "upgrade")
    /\ UNCHANGED << RwOthers, rw_writer, rw_upgradable, rw_readers, rw_guards,
                    lock_depth >>

\* upgrade: once READER count is zero, set WRITER and clear UPGRADABLE
RwUpgrade(t) ==
    /\ rwpc[t] = "upgrade"
    /\ rw_readers = 0
    /\ rw_writer' = TRUE
    /\ rw_upgradable' = FALSE
    /\ rw_guards' = [rw_guards EXCEPT ![t]["upgradable"] = @ - 1,
                                      ![t]["write"] = @ + 1]
    /\ RwGoto(t, "idle")
    /\ UNCHANGED << RwOthers, rw_readers, lock_depth >>

\* downgrade: WriteGuard -> ReadGuard in one atomic step
RwDowngrade(t) ==
    /\ rwpc[t] = "idle"
    /\ rw_guards[t]["write"] > 0
    /\ rw_writer' = FALSE
    /\ rw_readers' = rw_readers + 1
    /\ rw_guards' = [rw_guards EXCEPT ![t]["write"] = @ - 1,
                                      ![t]["read"] = @ + 1]
    /\ UNCHANGED << RwOthers, rw_upgradable, rwpc, lock_depth >>

\* read guard release: decrement READER count; after_lock()
RwReadRelease(t) ==
    /\ rwpc[t] = "idle"
    /\ rw_guards[t]["read"] > 0
    /\ rw_readers' = rw_readers - 1
    /\ RwGive(t, "read")
    /\ after_lock(t)
    /\ UNCHANGED << RwOthers, rw_writer, rw_upgradable, rwpc >>

\* write guard release: clear WRITER; after_lock()
RwWriteRelease(t) ==
    /\ rwpc[t] = "idle"
    /\ rw_guards[t]["write"] > 0
    /\ rw_writer' = FALSE
    /\ RwGive(t, "write")
    /\ after_lock(t)
    /\ UNCHANGED << RwOthers, rw_upgradable, rw_readers, rwpc >>

\* upgradable guard release: clear UPGRADABLE; after_lock()
RwUpgradableRelease(t) ==
    /\ rwpc[t] = "idle"
    /\ rw_guards[t]["upgradable"] > 0
    /\ rw_upgradable' = FALSE
    /\ RwGive(t, "upgradable")
    /\ after_lock(t)
    /\ UNCHANGED << RwOthers, rw_writer, rw_readers, rwpc >>

RwStep(t) ==
    \/ \E p \in {"read", "try_read", "write", "try_write", "upgradable_read"} :
           RwCall(t, p)
    \/ RwReadAcquire(t) \/ RwTryReadNone(t)
    \/ RwWriteAcquire(t) \/ RwTryWriteNone(t)
    \/ RwUpgradableAcquire(t)
    \/ RwUpgradeCall(t) \/ RwUpgrade(t) \/ RwDowngrade(t)
    \/ RwReadRelease(t) \/ RwWriteRelease(t) \/ RwUpgradableRelease(t)

NextRw == \E t \in Threads : RwStep(t)

RwSpec == Init /\ [][NextRw]_vars

\* -------------------------------------------- push_off / pop_off on one CPU
KGoto(p) == kpc' = p

\* push_off: let old = intr_get()
PushOffCall ==
    /\ kpc = "idle"
    /\ noff < MaxNoff
    /\ old' = sie
    /\ open_pushes' = open_pushes + 1
    /\ intr_before' = IF open_pushes = 0 THEN sie ELSE intr_before
    /\ KGoto("push_off")
    /\ UNCHANGED << rcuVars, spinVars, ticketVars, rwVars, lock_depth, sie, noff,
                    interrupt_enable, should_enable, intr_misuse >>

\* push_off: intr_off()
PushOffIntrOff ==
    /\ kpc = "push_off"
    /\ sie' = FALSE
    /\ KGoto("push_cpu")
    /\ UNCHANGED << rcuVars, spinVars, ticketVars, rwVars, lock_depth, noff,
                    interrupt_enable, old, should_enable, open_pushes,
                    intr_before, intr_misuse >>

\* mutant of PushOffCount: the flag is captured at every nesting level
PushOffCount_Always ==
    /\ kpc = "push_cpu"
    /\ interrupt_enable' = old
    /\ noff' = noff + 1
    /\ old' = FALSE
    /\ KGoto("idle")
    /\ UNCHANGED << rcuVars, spinVars, ticketVars, rwVars, lock_depth, sie,
                    should_enable, open_pushes, intr_before, intr_misuse >>

\* push_off: if cpu.noff == 0 { cpu.interrupt_enable = old }; cpu.noff += 1
PushOffCount ==
    /\ kpc = "push_cpu"
    /\ interrupt_enable' = IF noff = 0 THEN old ELSE interrupt_enable
    /\ noff' = noff + 1
    /\ old' = FALSE
    /\ KGoto("idle")
    /\ UNCHANGED << rcuVars, spinVars, ticketVars, rwVars, lock_depth, sie,
                    should_enable, open_pushes, intr_before, intr_misuse >>

\* mutant of PopOffCall: the counter is decremented before the check
PopOffCall_CheckLate ==
    /\ kpc = "idle"
    /\ noff' = noff - 1
    /\ IF sie \/ noff' < 0
         THEN /\ KGoto("panicked")
              /\ UNCHANGED << should_enable, open_pushes >>
         ELSE /\ should_enable' = (noff' = 0 /\ interrupt_enable)
              /\ open_pushes' = open_pushes - 1
              /\ KGoto("pop_off")
    /\ UNCHANGED << rcuVars, spinVars, ticketVars, rwVars, lock_depth, sie,
                    interrupt_enable, old, intr_before, intr_misuse >>

\* pop_off: if intr_get() || cpu.noff < 1 { panic!("pop_off") };
\* cpu.noff -= 1; let should_enable = cpu.noff == 0 && cpu.interrupt_enable
PopOffCall ==
    /\ kpc = "idle"
    /\ IF sie \/ noff < 1
         THEN /\ KGoto("panicked")
              /\ UNCHANGED << noff, should_enable, open_pushes >>
         ELSE /\ noff' = noff - 1
              /\ should_enable' = (noff' = 0 /\ interrupt_enable)
              /\ open_pushes' = open_pushes - 1
              /\ KGoto("pop_off")
    /\ UNCHANGED << rcuVars, spinVars, ticketVars, rwVars, lock_depth, sie,
                    interrupt_enable, old, intr_before, intr_misuse >>

\* pop_off: if should_enable { intr_on() }
PopOffIntrOn ==
    /\ kpc = "pop_off"
    /\ sie' = (sie \/ should_enable)
    /\ should_enable' = FALSE
    /\ KGoto("idle")
    /\ UNCHANGED << rcuVars, spinVars, ticketVars, rwVars, lock_depth, noff,
                    interrupt_enable, old, open_pushes, intr_before,
                    intr_misuse >>

\* kernel code outside push_off / pop_off calls intr_on() or intr_off()
IntrSet(b) ==
    /\ kpc = "idle"
    /\ sie' = b
    /\ intr_before' = IF open_pushes = 0 THEN b ELSE intr_before
    /\ intr_misuse' = (intr_misuse \/ (b /\ open_pushes > 0))
    /\ UNCHANGED << rcuVars, spinVars, ticketVars, rwVars, lock_depth, noff,
                    interrupt_enable, kpc, old, should_enable, open_pushes >>

NextKernel ==
    \/ PushOffCall \/ PushOffIntrOff \/ PushOffCount
    \/ PopOffCall \/ PopOffIntrOn
    \/ \E b \in BOOLEAN : IntrSet(b)

KernelInit ==
    /\ InitRcu /\ InitSpin /\ InitTicket /\ InitRw /\ InitLockAction
    /\ InitCpu

KernelSpec == KernelInit /\ [][NextKernel]_vars

\* ----------------------------------------------- the three locks together
\* one of the locks is exercised while the other two are left as constructed
NextOneLock ==
    \/ InitSpin /\ InitTicketCounters /\ NextRcu
    \/ InitRcu /\ InitTicketCounters /\ NextSpin
    \/ InitRcu /\ InitSpin /\ NextTicket

LockActionSpec == TicketInit /\ [][NextOneLock]_vars

\* ------------------------------------- the locks with KernelLockAction
\* the thread that runs on the CPU whose push_off / pop_off are modelled;
\* every other thread runs on another CPU, whose Cpu entry is its own
KernelThread == CHOOSE t \in Threads : TRUE

\* thread t is inside a call of one of the locks (or has panicked in one)
InCall(t) == rpc[t] # "idle" \/ spc[t] # "idle" \/ tpc[t] # "idle"

\* a thread is one flow of control: it steps inside the call it is in, or
\* it starts an operation on any of the locks when it is in none
SpinLockStep(t) ==
    SpinCas(t) \/ SpinWait(t) \/ SpinTryCas(t) \/ SpinTryNone(t)
LockStep(t) == RcuStep(t) \/ SpinLockStep(t) \/ TicketStep(t)
LockClient(t) ==
    /\ ~InCall(t)
    /\ \/ ReadCall(t) \/ ReadGuardDrop(t)
       \/ WriteCall(t) \/ TryWriteCall(t) \/ GuardDrop(t)
       \/ SpinLockCall(t) \/ SpinTryLockCall(t) \/ SpinGuardDrop(t)
       \/ TicketLockCall(t) \/ TicketTryLockCall(t) \/ TicketGuardDrop(t)

\* a thread of another CPU contends for the SpinMutex
OtherCpuClient(t) ==
    /\ ~InCall(t)
    /\ (SpinLockCall(t) \/ SpinTryLockCall(t) \/ SpinGuardDrop(t))

\* the CPU is outside push_off / pop_off and no call of them is due
CpuReady == kpc = "idle" /\ lock_depth[KernelThread] = open_pushes

\* KernelLockAction::before_lock is push_off, entered by the lock's call
KernelBeforeLock ==
    /\ lock_depth[KernelThread] > open_pushes
    /\ PushOffCall

\* KernelLockAction::after_lock is pop_off, entered by the lock's call
KernelAfterLock ==
    /\ lock_depth[KernelThread] < open_pushes
    /\ PopOffCall

NextKernelLock ==
    \/ CpuReady /\ (LockStep(KernelThread) \/ LockClient(KernelThread))
    \/ KernelBeforeLock \/ KernelAfterLock
    \/ PushOffIntrOff \/ PushOffCount \/ PopOffIntrOn
    \/ \E t \in Threads \ {KernelThread} : SpinLockStep(t) \/ OtherCpuClient(t)

\* Cpu::new on a CPU with interrupts on or off, either build profile
KernelLockInit ==
    /\ InitRcu /\ InitSpin /\ InitRw /\ InitLockAction /\ InitCpu
    /\ InitTicketCounters
    /\ overflow_checks \in BOOLEAN

KernelLockSpec == KernelLockInit /\ [][NextKernelLock]_vars

\* ------------------------------------------------------------ RCU claims
WriteGuards == {t \in Threads : wg[t].st # "none"}
LiveReadGuards == {<<t, k>> \in Threads \X GuardSlots : read_guards[t][k].live}
Quiescent ==
    /\ \A t \in Threads : rpc[t] = "idle"
    /\ WriteGuards = {}
    /\ LiveReadGuards = {}

\* the storage a read guard points to is allocated and still holds the
\* value the guard observed when it was acquired
Stable(g) ==
    /\ g.data # Null => node_live[g.data]
    /\ Content(g.data) = g.seen

\* C1: every live read guard dereferences to the value it observed at
\* acquisition, until it is dropped, whatever writers do meanwhile.
C1_ReadStability ==
    \A t \in Threads, k \in GuardSlots :
        read_guards[t][k].live => Stable(read_guards[t][k])

\* the state in which C1 fails: a live read guard points into a published
\* node
ReadGuardIntoNode ==
    \E t \in Threads, k \in GuardSlots :
        read_guards[t][k].live /\ read_guards[t][k].data # Null

\* C2: no update is lost: a write guard's working copy starts from the
\* value committed by the last released write guard, and once every guard
\* is released read() returns the initial value plus the number of
\* increments performed.
C2_NoLostUpdate ==
    /\ \A t \in Threads : rpc[t] = "w_next" => wg[t].list_value = committed
    /\ Quiescent => Content(Deref) = 0 + total_incs

C2_Witness ==
    /\ Quiescent
    /\ total_incs = 2
    /\ Content(Deref) = 2

\* C3: at most one write guard exists (one being acquired or released
\* counts), and one exists only while am_writing is true.
C3_SingleWriter ==
    /\ Cardinality(WriteGuards) <= 1
    /\ WriteGuards # {} => am_writing

C3_Witness ==
    \E t, u \in Threads :
        /\ t # u
        /\ wg[t].st = "held"
        /\ rpc[u] = "w_swap"
        /\ am_writing

\* what a try_write of thread t that is at its swap does in this step
TryWriteOutcome(t) ==
    (rpc[t] = "tw_swap" /\ rpc'[t] # "tw_swap") =>
        /\ am_writing => rpc'[t] = "tw_none" /\ wg'[t] = wg[t]
        /\ ~am_writing => rpc'[t] = "w_deref" /\ wg'[t].st = "acquiring"
        /\ am_writing'

\* what the None arm of try_write changes
TryWriteNoneEffect(t) ==
    (rpc[t] = "tw_none" /\ rpc'[t] # "tw_none") =>
        /\ rpc'[t] = "idle"
        /\ lock_depth'[t] = lock_depth[t] - 1
        /\ UNCHANGED << am_writing, borrow_count, current_borrow_count_index,
                        next, wg >>

\* from the failed swap to the return nothing of the lock has been changed
\* by the failing thread, and am_writing is set only while a guard exists
TryWriteNoneState ==
    /\ \A t \in Threads : rpc[t] = "tw_none" => lock_depth[t] >= 1
    /\ am_writing => WriteGuards # {}

\* C4: try_write returns None exactly when am_writing was already true and
\* a guard otherwise; a failed try_write calls after_lock once and changes
\* neither am_writing, borrow_count, current_index nor next; after the
\* earlier guard's release am_writing is false again, so the next
\* try_write succeeds.
C4_TryWrite ==
    /\ []TryWriteNoneState
    /\ [][\A t \in Threads : TryWriteOutcome(t) /\ TryWriteNoneEffect(t)]_vars
    /\ [][\A t \in Threads :
            (rpc[t] = "d_unlock" /\ rpc'[t] = "idle") => ~am_writing']_vars

C4_Witness ==
    \E t \in Threads :
        /\ rpc[t] = "tw_none"
        /\ am_writing
        /\ wg[t].st = "held"

\* the thread that is releasing the write guard through which node n was published
Releaser(n) ==
    {t \in Threads :
        /\ wg[t].st = "releasing"
        /\ rpc[t] \in {"d_toggle", "d_dec", "d_wait", "c_load", "c_buf",
                        "c_promote", "c_null", "c_restore", "c_free"}
        /\ (next = n \/ to_be_freed[t] = n)}

\* C5: a published node is freed exactly once, by the writer that
\* published it, in its own release after its wait, never by a reader;
\* with no write guard left, next is null and no node is allocated.
C5_Reclamation ==
    /\ [](~double_free)
    /\ [](\A n \in NodeIds : node_live[n] => Cardinality(Releaser(n)) = 1)
    /\ [](WriteGuards = {} => next = Null /\ \A n \in NodeIds : ~node_live[n])
    /\ [][\A n \in NodeIds : (node_live[n] /\ ~node_live'[n]) =>
            \E t \in Releaser(n) :
                /\ rpc[t] = "c_free"
                /\ rpc'[t] = "d_unlock"
                /\ to_be_freed[t] = n]_vars

C5_Witness ==
    /\ Quiescent
    /\ total_incs = 1
    /\ value = 1
    /\ next = Null
    /\ \A n \in NodeIds : ~node_live[n]

\* ------------------------------------------------------- RCU liveness
InRead(t) == rpc[t] \in {"r_load", "r_inc", "r_deref"}
InWrite(t) == rpc[t] = "w_swap"
WriteGuardsDropped == \A t \in Threads : []<>(wg[t].st # "held")
ReadGuardsDropped ==
    \A t \in Threads, k \in GuardSlots : []<>(~read_guards[t][k].live)

\* C6: every read() returns, and every write() call returns a guard
\* provided every write guard obtained is eventually dropped, even if
\* some read guard is never released.
C6_ReadersNeverBlock ==
    /\ \A t \in Threads : InRead(t) ~> rpc[t] = "idle"
    /\ WriteGuardsDropped =>
           \A t \in Threads : InWrite(t) ~> wg[t].st = "held"

\* C6 with the premise that read guards are dropped too
C6_EveryWriteReturns ==
    (WriteGuardsDropped /\ ReadGuardsDropped) =>
        \A t \in Threads : InWrite(t) ~> wg[t].st = "held"

\* C6 as amended
C6_Amended ==
    /\ \A t \in Threads : InRead(t) ~> rpc[t] = "idle"
    /\ (WriteGuardsDropped /\ ReadGuardsDropped) =>
           \A t \in Threads :
               InWrite(t) ~> \E u \in Threads : wg[u].st = "held"

C6_Witness ==
    \E t, u \in Threads, k \in GuardSlots :
        /\ InWrite(t)
        /\ rpc[u] = "d_wait"
        /\ read_guards[t][k].live
        /\ read_guards[t][k].borrow_count_index = wg[u].borrow_count_index

\* C7: if every read guard is eventually dropped, every write-guard release
\* terminates, however many new read() calls arrive.
C7_GracePeriod ==
    ReadGuardsDropped =>
        \A t \in Threads : wg[t].st = "releasing" ~> wg[t].st = "none"

\* a release is waiting while a reader registers in the other slot
C7_Witness ==
    \E t, u \in Threads, k \in GuardSlots :
        /\ rpc[t] = "d_wait"
        /\ borrow_count[wg[t].borrow_count_index] > 0
        /\ read_guards[u][k].live
        /\ read_guards[u][k].borrow_count_index # wg[t].borrow_count_index

\* ------------------------------------------------------ SpinMutex claims
RECURSIVE SumOver(_, _)
SumOver(f, S) ==
    IF S = {} THEN 0
    ELSE LET x == CHOOSE y \in S : TRUE
         IN  f[x] + SumOver(f, S \ {x})

\* live SpinMutexGuards, over all threads
SpinGuardCount == SumOver(spin_guards, Threads)

\* threads between the read and the write of `*guard += 1`
SpinIncrementing == { t \in Threads : spc[t] = "s_add" }

\* C8: SpinMutex mutual exclusion.  Over every interleaving of lock(),
\* try_lock() and guard drops at most one guard exists, locked is true
\* exactly while a guard exists, and no increment made under the lock is
\* lost: the counter equals the number of increments completed, so N
\* threads incrementing K times each leave it at N*K.
C8_SpinMutualExclusion ==
    /\ SpinGuardCount <= 1
    /\ locked <=> SpinGuardCount = 1
    /\ Cardinality(SpinIncrementing) <= SpinGuardCount
    /\ data = spin_incs - Cardinality(SpinIncrementing)

\* every increment is done, one thread holds the guard and another spins
C8_Witness ==
    \E t, u \in Threads :
        /\ t # u
        /\ spin_guards[t] = 1
        /\ spc[u] = "s_spin"
        /\ data = MaxIncs

\* ---------------------------------------------------- TicketMutex claims
\* live TicketMutexGuards of one thread, and over all threads
GuardsOf(t) == SumOver(ticket_guards[t], TicketValues)
TicketGuardCount == SumOver([t \in Threads |-> GuardsOf(t)], Threads)

\* the tickets a thread holds: the one lock() drew and waits on, and those
\* of its guards
TicketsOf(t) ==
    { k \in TicketValues : ticket_guards[t][k] > 0 }
      \cup (IF tpc[t] = "t_spin" THEN {ticket[t]} ELSE {})

NoSharedTicket ==
    \A t, u \in Threads : t # u => TicketsOf(t) \cap TicketsOf(u) = {}

AtMostOneTicketGuard == TicketGuardCount <= 1

GuardIsServed ==
    \A t \in Threads : \A k \in TicketValues :
        ticket_guards[t][k] > 0 => k = next_serving

\* C9: TicketMutex mutual exclusion and counter invariant.  Over every
\* interleaving of lock(), try_lock() and guard drops no two threads hold
\* the same ticket, at most one guard exists, its ticket is next_serving,
\* and next_serving <= next_ticket.
C9_TicketMutualExclusion ==
    /\ NoSharedTicket
    /\ AtMostOneTicketGuard
    /\ GuardIsServed
    /\ next_serving <= next_ticket

\* thread t acquires a guard with ticket b in this step
Acquires(t, b) == ticket_guards'[t][b] > ticket_guards[t][b]

\* a ticket a drawn by fetch_add, or held in a guard, by a thread other
\* than t, after the step
OtherTicketAfter(t, a) ==
    \E u \in Threads \ {t} :
        \/ ticket_guards'[u][a] > 0
        \/ tpc'[u] = "t_spin" /\ ticket'[u] = a

\* C10: TicketMutex FIFO admission.  When the guard with ticket b is
\* acquired, every guard with a ticket a < b has been released and no
\* thread still waits with a ticket a < b; the tickets of the guards
\* acquired are 0, 1, 2, ... in this order, none skipped.
C10_TicketFIFO ==
    [][\A t \in Threads : \A b \in TicketValues :
          Acquires(t, b) =>
              /\ \A a \in TicketValues : a < b => ~OtherTicketAfter(t, a)
              /\ b = next_expected]_vars

\* the same order read modulo 2^TicketBits: a guard is acquired only when
\* no other guard is held, and its ticket follows the previous one
TicketOrderModular ==
    [][\A t \in Threads : \A b \in TicketValues :
          Acquires(t, b) =>
              /\ TicketGuardCount = 0
              /\ b = next_expected % TicketModulus]_vars

\* ----------------------------------------------------- LockAction claims
Bit(b) == IF b THEN 1 ELSE 0

\* guards thread t holds and acquisitions it has in progress, per lock
RcuHeld(t) ==
    Cardinality({ k \in GuardSlots : read_guards[t][k].live })
      + Bit(rpc[t] \in {"r_load", "r_inc", "r_deref"})
      + Bit(wg[t].st # "none")
      + Bit(rpc[t] \in {"w_swap", "tw_swap", "tw_none"})

SpinHeld(t) ==
    spin_guards[t] + Bit(spc[t] \in {"s_cas", "s_spin", "st_cas", "st_none"})

TicketHeld(t) ==
    GuardsOf(t)
      + Bit(tpc[t] \in {"t_take", "t_spin", "tt_load", "tt_check", "tt_cas",
                        "tt_none"})

Balanced(t) == lock_depth[t] = RcuHeld(t) + SpinHeld(t) + TicketHeld(t)

\* C11: LockAction symmetry.  For SpinMutex, TicketMutex and RcuLock, per
\* thread, the before_lock calls not yet matched by an after_lock are as
\* many as the guards the thread holds plus the acquisitions it has in
\* progress: every attempt calls before_lock once, matched by one
\* after_lock at the guard's drop or at once when a try_* fails.
C11_LockActionSymmetry == \A t \in Threads : Balanced(t)

\* the symmetry holds as long as `ticket + 1` has not overflowed
BalancedUnlessPanicked ==
    \A t \in Threads : tpc[t] # "panicked" => Balanced(t)

\* ------------------------------------------------ SpinMutex::try_lock claims
\* a try_lock in progress can always take its next step: it has no loop
SpinTryLockReady ==
    \A t \in Threads :
        /\ spc[t] = "st_cas" => ENABLED SpinTryCas(t)
        /\ spc[t] = "st_none" => ENABLED SpinTryNone(t)

\* the one compare-and-set of thread t's try_lock and what it leads to
SpinTryLockOutcome(t) ==
    (spc[t] = "st_cas" /\ spc'[t] # "st_cas") =>
        IF locked
          THEN /\ spc'[t] = "st_none"
               /\ locked'
               /\ spin_guards' = spin_guards
          ELSE /\ spc'[t] = "idle"
               /\ locked'
               /\ spin_guards' = [spin_guards EXCEPT ![t] = @ + 1]

\* the None arm returns and touches neither the flag nor any guard
SpinTryLockNone(t) ==
    (spc[t] = "st_none" /\ spc'[t] # "st_none") =>
        /\ spc'[t] = "idle"
        /\ locked' = locked
        /\ spin_guards' = spin_guards
        /\ data' = data

\* C12: SpinMutex::try_lock never waits.  It makes one compare-and-set:
\* when that finds locked = false it sets it and a guard is returned, when
\* the lock is held it returns none, locked stays true and the holder's
\* guard is unaffected.
C12_SpinTryLock ==
    /\ []SpinTryLockReady
    /\ [][\A t \in Threads : SpinTryLockOutcome(t) /\ SpinTryLockNone(t)]_vars

\* a try_lock has failed against a guard another thread holds
C12_Witness ==
    \E t, u \in Threads :
        /\ t # u
        /\ spc[t] = "st_none"
        /\ spin_guards[u] = 1
        /\ locked

\* ---------------------------------------------- TicketMutex::try_lock claims
InTicketTryLock(t) == tpc[t] \in {"tt_load", "tt_check", "tt_cas", "tt_none"}

\* the step in which thread t's try_lock claims its ticket
TicketTryClaims(t) == tpc[t] = "tt_cas" /\ tpc'[t] = "idle"

\* C13: TicketMutex::try_lock succeeds only if next_serving = next_ticket
\* at the moment it bumps next_ticket, and every other step of a try_lock,
\* a failed one included, leaves next_ticket and next_serving unchanged, so
\* that no unserved ticket is created.
C13_TicketTryLock ==
    [][\A t \in Threads :
          /\ TicketTryClaims(t) =>
                 /\ next_serving = next_ticket
                 /\ next_ticket' = (next_ticket + 1) % TicketModulus
                 /\ next_serving' = next_serving
          /\ (InTicketTryLock(t) /\ tpc'[t] # tpc[t] /\ ~TicketTryClaims(t)) =>
                 /\ next_ticket' = next_ticket
                 /\ next_serving' = next_serving]_vars

\* the same, for the claims made before next_ticket has wrapped around
TicketTryLockBeforeWrap ==
    [][\A t \in Threads :
          /\ (TicketTryClaims(t) /\ ~wrapped) =>
                 /\ next_serving = next_ticket
                 /\ next_ticket' = (next_ticket + 1) % TicketModulus
                 /\ next_serving' = next_serving
          /\ (InTicketTryLock(t) /\ tpc'[t] # tpc[t] /\ ~TicketTryClaims(t)) =>
                 /\ next_ticket' = next_ticket
                 /\ next_serving' = next_serving]_vars

\* ------------------------------------------------------ force_unlock claims
\* thread t force-unlocks for one of its forgotten guards in this step
SpinForceStep(t) == spin_forgotten'[t] < spin_forgotten[t]
TicketForceStep(t, k) == ticket_forgotten'[t][k] < ticket_forgotten[t][k]

\* what SpinMutexGuard::drop does to the lock
SpinDropEffect(t) ==
    /\ locked' = FALSE
    /\ data' = data
    /\ lock_depth' = [lock_depth EXCEPT ![t] = @ - 1]

\* what TicketMutexGuard::drop does to the lock for a guard with ticket k
TicketDropEffect(t, k) ==
    IF k = TicketMax /\ overflow_checks
      THEN /\ tpc'[t] = "panicked"
           /\ next_serving' = next_serving
           /\ lock_depth' = lock_depth
      ELSE /\ next_serving' = (k + 1) % TicketModulus
           /\ next_ticket' = next_ticket
           /\ ticket_data' = ticket_data
           /\ lock_depth' = [lock_depth EXCEPT ![t] = @ - 1]

ForceUnlockAsDrop ==
    \A t \in Threads :
        /\ SpinForceStep(t) => SpinDropEffect(t)
        /\ \A k \in TicketValues : TicketForceStep(t, k) => TicketDropEffect(t, k)

\* C14: for SpinMutex and TicketMutex, force_unlock() by a thread holding
\* the lock through a forgotten guard changes the lock as the drop of that
\* guard would (spin: locked := false; ticket: next_serving becomes
\* ticket + 1) and leaves the data written through as_mut_ptr() in place,
\* so that the lock is free for a following lock().
C14_ForceUnlock == [][ForceUnlockAsDrop]_vars

\* the same in builds that do not check `ticket + 1` for overflow
ForceUnlockUnchecked == [][~overflow_checks => ForceUnlockAsDrop]_vars

\* ------------------------------------------------ TicketMutex fairness claims
InTicketLock(t) == tpc[t] \in {"t_take", "t_spin"}

\* every guard holder eventually drops its guard
TicketGuardsDropped == \A t \in Threads : []<>(GuardsOf(t) = 0)

\* every lock() call returns its guard
TicketLockReturns == \A t \in Threads : InTicketLock(t) ~> tpc[t] = "idle"

\* when a guard with ticket b is acquired, no other thread holds or waits
\* with a smaller ticket
SmallerTicketsReleased ==
    \A t \in Threads : \A b \in TicketValues :
        Acquires(t, b) =>
            \A a \in TicketValues : a < b => ~OtherTicketAfter(t, a)

\* C15: TicketMutex is starvation-free.  Under fair scheduling, if every
\* guard holder eventually drops its guard, every thread that calls lock()
\* eventually obtains the guard, and it does so once the threads with
\* smaller tickets have released theirs.
C15_TicketStarvationFree ==
    /\ TicketGuardsDropped => TicketLockReturns
    /\ [][SmallerTicketsReleased]_vars

\* the liveness half alone, in builds that do not check `ticket + 1`
TicketLockReturnsUnchecked ==
    ([]~overflow_checks /\ TicketGuardsDropped) => TicketLockReturns

\* the liveness half alone, in either build
TicketLockReturnsAnyBuild == TicketGuardsDropped => TicketLockReturns

\* ------------------------------------------------- push_off / pop_off nesting
\* a step of push_off or pop_off turns interrupts on
ReEnables == ~sie /\ sie' /\ kpc # "idle"

\* the saved state of the CPU follows the calls made so far
NestTracked ==
    /\ noff = open_pushes - (IF kpc \in {"push_off", "push_cpu"} THEN 1 ELSE 0)
    /\ noff > 0 => (~sie /\ interrupt_enable = intr_before)
    /\ kpc = "push_cpu" => (~sie /\ old = (intr_before /\ noff = 0))
    /\ kpc = "pop_off" => (~sie /\ should_enable = (intr_before /\ noff = 0))
    /\ (kpc = "idle" /\ open_pushes = 0) => sie = intr_before

\* C16: in a run of push_off / pop_off calls that starts with noff = 0, never
\* pops more than it pushed and does not enable interrupts by hand inside
\* the nest, interrupts are turned on only by the pop_off that brought noff
\* back to 0, and only if they were on before the first push_off; when all
\* push_off calls are matched the interrupt state is what it was before.
C16_KernelNesting ==
    /\ []((~intr_misuse /\ kpc # "panicked") => NestTracked)
    /\ [][(~intr_misuse /\ ReEnables)
            => (kpc = "pop_off" /\ noff = 0 /\ open_pushes = 0 /\ intr_before)]_vars

\* the pop_off that brought noff back to 0 is about to turn interrupts on
C16_Witness ==
    /\ kpc = "pop_off" /\ should_enable /\ noff = 0
    /\ intr_before /\ ~sie /\ ~intr_misuse

\* a step that is a call of pop_off
PopOffCalled == kpc = "idle" /\ kpc' \in {"pop_off", "panicked"}

\* C17: pop_off called with interrupts enabled or with noff < 1 panics and
\* leaves noff, interrupt_enable and the interrupt state alone; noff is
\* never negative in a state that has not panicked.
C17_PopOffPanics ==
    /\ [][(PopOffCalled /\ (sie \/ noff < 1))
            => (kpc' = "panicked"
                /\ UNCHANGED << noff, interrupt_enable, sie >>)]_vars
    /\ [](kpc # "panicked" => noff >= 0)

\* pop_off has panicked inside a nest because interrupts were on
C17_Witness == kpc = "panicked" /\ sie /\ noff > 0

\* ------------------------------------------------------- RwLock exclusion
RwGuardCount(k) == SumOver([t \in Threads |-> rw_guards[t][k]], Threads)

Values == 0..MaxIncs

\* what `*guard` can read through read guard g: the value its pointer
\* refers to, or anything at all once the node it points into was freed
Observable(g) ==
    IF g.data # Null /\ ~node_live[g.data] THEN Values
    ELSE {Content(g.data)}

\* some thread holds a write guard it has not started to drop
WriteGuardHeld == \E u \in Threads : wg[u].st = "held"

\* the step in which read() on thread t loads next and returns its guard
ReadReturns(t) == rpc[t] = "r_deref" /\ rpc'[t] = "idle"

\* the guard a returning read() of thread t creates saw value v
NewGuardSaw(t, v) ==
    \E k \in GuardSlots :
        /\ ~read_guards[t][k].live
        /\ read_guards'[t][k].live
        /\ read_guards'[t][k].seen = v

\* while a write guard stays held no step changes next
NextUntouched ==
    (\E u \in Threads : wg[u].st = "held" /\ wg'[u].st = "held") => next' = next

\* a read() returning while a write guard is held sees the committed value
ReadsCommitted ==
    \A t \in Threads :
        (ReadReturns(t) /\ WriteGuardHeld) => NewGuardSaw(t, committed)

\* read guards only ever read the initial value or a released final value
OnlyReleasedValues ==
    \A t \in Threads, k \in GuardSlots :
        read_guards[t][k].live => Observable(read_guards[t][k]) \subseteq released

\* C19: while a write guard is held and not yet dropped next is unchanged
\* and every read() returns the previously committed value; no read guard
\* dereferences to anything but the initial value or the final value of a
\* released write guard.
C19_WriteIsolation ==
    /\ [][NextUntouched /\ ReadsCommitted]_vars
    /\ []OnlyReleasedValues

\* the part of C19 about the time the write guard is held
IsolationWhileHeld == [][NextUntouched /\ ReadsCommitted]_vars

\* read guards whose storage is still allocated read released values only
ReleasedUnlessFreed ==
    \A t \in Threads, k \in GuardSlots :
        (read_guards[t][k].live /\ Cardinality(Observable(read_guards[t][k])) = 1)
            => Observable(read_guards[t][k]) \subseteq released

\* a read() has returned while a write guard holding an increment is held
IsolationSeen ==
    \E t, u \in Threads :
        /\ wg[u].st = "held" /\ wg[u].list_value > committed
        /\ read_guards[t][1].live /\ read_guards[t][1].seen = committed

\* ------------------------------------------ RcuLock publication visibility
\* a returning read() finds, at its load of next, the final value of the
\* write guard released last
ReadSeesPublished ==
    \A t \in Threads : ReadReturns(t) => NewGuardSaw(t, committed)

\* writers only add to the value they cloned, so a later version never
\* holds a smaller value than an earlier one
VersionsGrow == committed' >= committed

\* what a read guard reads is never older than the version that was
\* published when its read() loaded next
NeverOlder ==
    \A t \in Threads, k \in GuardSlots :
        read_guards[t][k].live =>
            \A v \in Observable(read_guards[t][k]) : v >= read_guards[t][k].seen

\* C20: a read() that loads next after a release has published its node
\* observes that writer's final value, before cleanup through the node and
\* after cleanup through value, and what reads observe never goes back to
\* an older committed version.
C20_PublicationVisibility ==
    /\ [][ReadSeesPublished /\ VersionsGrow]_vars
    /\ []NeverOlder

\* the part of C20 about the moment read() loads next
VisibleAtLoad == [][ReadSeesPublished /\ VersionsGrow]_vars

\* a read guard into a published node whose value clean() has replaced by
\* the previous version
ReadsRestoredValue ==
    \E t \in Threads, k \in GuardSlots :
        LET g == read_guards[t][k] IN
            /\ g.live /\ g.data # Null /\ node_live[g.data]
            /\ node_value[g.data] < g.seen

\* read() has returned a guard into the published node, before cleanup
PublishedSeenThroughNode ==
    \E t \in Threads, k \in GuardSlots :
        LET g == read_guards[t][k] IN
            /\ g.live /\ g.data # Null /\ next = g.data
            /\ g.seen = committed /\ committed > 0

\* ------------------------------------------- VersionedCell state machine
\* positions of a write-guard drop at which the published node is in next
Published == {"d_toggle", "d_dec", "d_wait", "c_load", "c_buf", "c_promote",
              "c_null"}

\* thread t takes the step and holds am_writing
StepOfWriter(t) == rpc'[t] # rpc[t] /\ wg[t].st # "none" /\ am_writing

\* next changes only in a step of the holder of am_writing: from null to
\* its node when Guard::drop publishes, from that node to null in clean()
NextTransitions ==
    next' # next =>
        \E t \in Threads :
            /\ StepOfWriter(t)
            /\ \/ next = Null /\ wg[t].st = "held" /\ rpc'[t] = "d_toggle"
               \/ next' = Null /\ rpc[t] = "c_null" /\ rpc'[t] = "c_restore"

\* am_writing goes from true to false only with next null
ClearedAfterNull == (am_writing /\ ~am_writing') => (next = Null /\ next' = Null)

\* next is a node exactly between publication and the swap in clean()
CellStates ==
    /\ next # Null <=> \E t \in Threads : rpc[t] \in Published
    /\ ~am_writing => next = Null
    /\ \A t \in Threads : rpc[t] = "w_clone" => wg[t].src = Null
    /\ \A n \in NodeIds : node_live[n] => node_next[n] = Null

\* C21: next changes only by steps of the holder of am_writing, null ->
\* node -> null once per write cycle; am_writing is cleared only after next
\* is null again, so am_writing = false implies next = null, a new writer
\* clones from value and a published node's own next is null.
C21_CellStateMachine ==
    /\ []CellStates
    /\ [][NextTransitions /\ ClearedAfterNull]_vars

\* clean() has nulled next again while am_writing is still held
C21_Witness ==
    \E t \in Threads :
        /\ rpc[t] = "c_restore" /\ next = Null /\ am_writing
        /\ c_next[t] # Null /\ node_live[c_next[t]]

\* ------------------------------------------------- RcuLock index toggle
\* writers that have toggled the index and are not yet past their wait
Waiting == {u \in Threads : rpc[u] \in {"d_dec", "d_wait"}}

\* the step in which read() on thread t loads current_borrow_count_index
ReadLoads(t) == rpc[t] = "r_load" /\ rpc'[t] = "r_inc"

\* the step in which read() on thread t increments its slot
ReadIncrements(t) == rpc[t] = "r_inc" /\ rpc'[t] = "r_deref"

\* a read() loading the index after the toggle gets the other slot
LoadsOtherSlot ==
    \A t \in Threads, u \in Waiting :
        ReadLoads(t) => r_index'[t] # wg[u].borrow_count_index

\* such a read() leaves the slot the writer waits on alone
SparesWaitedSlot ==
    \A t \in Threads, u \in Waiting :
        (ReadIncrements(t) /\ r_fresh[t]) =>
            /\ borrow_count'[wg[u].borrow_count_index]
                   = borrow_count[wg[u].borrow_count_index]
            /\ borrow_count'[1 - wg[u].borrow_count_index]
                   = borrow_count[1 - wg[u].borrow_count_index] + 1

\* C22: once a releasing writer has toggled the index, a read() that loads
\* the index afterwards increments the other slot, never the slot the
\* writer waits on, so it does not prolong the writer's wait.
C22_IndexToggle == [][LoadsOtherSlot /\ SparesWaitedSlot]_vars

\* a read() that began after the toggle is registered in the other slot
\* while the writer finds its own slot empty
C22_Witness ==
    \E t \in Threads, u \in Waiting :
        /\ rpc[t] = "r_deref" /\ r_fresh[t] /\ rpc[u] = "d_wait"
        /\ borrow_count[wg[u].borrow_count_index] = 0
        /\ borrow_count[1 - wg[u].borrow_count_index] > 0

\* ------------------------------------------- RcuLock grace-period closure
\* writers whose wait loop has seen their slot at 0 and that have not yet
\* cleared am_writing
PastWait == {u \in Threads : rpc[u] \in {"c_load", "c_buf", "c_promote", "c_null",
                                         "c_restore", "c_free", "d_unlock"}}

\* C23: from the moment a releasing writer has seen its pre-toggle slot at
\* 0 until it has finished cleanup and cleared am_writing, that slot stays
\* at 0.
C23_GracePeriodClosure ==
    \A u \in PastWait : borrow_count[wg[u].borrow_count_index] = 0

\* a reader that registers in the closed slot loaded the index before the
\* writer's toggle: read()s that load the index after the toggle stay out
ClosedToFreshReaders ==
    [][\A t \in Threads, u \in PastWait :
          ReadIncrements(t) =>
              \/ r_index[t] # wg[u].borrow_count_index
              \/ r_index[t] # current_borrow_count_index]_vars

\* ------------------------------------------------ RcuLock cleanup ordering
\* a step overwrites value, nulls next or frees a node
CleanupEffect ==
    \/ value' # value
    \/ next # Null /\ next' = Null
    \/ \E n \in NodeIds : node_live[n] /\ ~node_live'[n]

\* thread t enters position p in this step
Enters(t, p) == rpc[t] # p /\ rpc'[t] = p

\* the effects of cleanup are steps of clean() run by the holder of
\* am_writing inside its write-guard drop
CleanupByReleaser ==
    CleanupEffect =>
        \E t \in Threads :
            /\ rpc[t] \in {"c_promote", "c_null", "c_free"} /\ rpc'[t] # rpc[t]
            /\ wg[t].st = "releasing" /\ am_writing

\* the drop reaches clean() only through publish, toggle, decrement of its
\* own slot and a load of that slot that returned 0, in this order
DropInOrder ==
    \A t \in Threads :
        /\ Enters(t, "d_toggle") =>
               (wg[t].st = "held" /\ next = Null /\ next' # Null)
        /\ Enters(t, "d_dec") =>
               (rpc[t] = "d_toggle"
                /\ current_borrow_count_index' = 1 - wg[t].borrow_count_index)
        /\ Enters(t, "d_wait") =>
               (rpc[t] = "d_dec"
                /\ borrow_count'[wg[t].borrow_count_index]
                       = borrow_count[wg[t].borrow_count_index] - 1)
        /\ Enters(t, "c_load") =>
               (rpc[t] = "d_wait" /\ borrow_count[wg[t].borrow_count_index] = 0)
        /\ Enters(t, "c_buf") => rpc[t] = "c_load"
        /\ Enters(t, "c_promote") => rpc[t] = "c_buf"
        /\ Enters(t, "c_null") => rpc[t] = "c_promote"
        /\ Enters(t, "c_restore") => rpc[t] = "c_null"
        /\ Enters(t, "c_free") => rpc[t] = "c_restore"

\* C24: value is overwritten, next nulled and the node freed only by the
\* thread holding am_writing, and only after that thread has published
\* its node, toggled the index, decremented its own count and seen its
\* pre-toggle slot at 0, in this order.
C24_CleanupOrdering == [][CleanupByReleaser /\ DropInOrder]_vars

\* a releasing writer has promoted, nulled and freed its node
C24_Witness ==
    \E t \in Threads :
        /\ rpc[t] = "d_unlock" /\ wg[t].st = "releasing"
        /\ to_be_freed[t] # Null /\ ~node_live[to_be_freed[t]]
        /\ value = committed /\ committed > 0 /\ next = Null

\* ------------------------------------------------- SpinMutex admission
InSpinLock(t) == spc[t] \in {"s_cas", "s_spin"}

\* whenever the lock is free while some thread is inside lock(), the lock
\* is eventually taken
FreeLockIsTaken == (~locked /\ \E t \in Threads : InSpinLock(t)) ~> locked

\* with the lock free, any thread at its compare-exchange may be the one
\* that takes it, however often it was overtaken
ArbitraryAdmission ==
    \A t \in Threads :
        (~locked /\ spc[t] = "s_cas") => ENABLED <<SpinCasWins(t)>>_vars

\* C25: SpinMutex admits in arbitrary order: a thread inside lock() can be
\* overtaken again and again by threads that release and re-acquire, while
\* a free lock with some thread inside lock() is eventually taken by some
\* thread.
C25_SpinNoFairness == FreeLockIsTaken /\ []ArbitraryAdmission

\* a thread is still inside lock() after the lock was taken MaxOvertake
\* times by others, and the lock is free again
C25_Witness ==
    \E t \in Threads :
        InSpinLock(t) /\ overtaken[t] = MaxOvertake /\ ~locked

\* every lock() returns: what a fair lock would give
SpinLockReturns == \A t \in Threads : InSpinLock(t) ~> (spc[t] = "idle")

\* a thread stays inside lock() for ever while the lock keeps being freed
SpinStarvationFree ==
    \A t \in Threads : ~(<>[]InSpinLock(t) /\ []<>(~locked) /\ []<>locked)

\* ------------------------------------------- RcuLock use-after-free freedom
\* live read guards whose pointer targets node n
GuardsInto(n) ==
    {g \in LiveReadGuards : read_guards[g[1]][g[2]].data = n}

\* C26: when cleanup frees the successor node, no live read guard holds a
\* pointer into that node, and so no live read guard ever points into
\* freed memory.
C26_NoUseAfterFree ==
    /\ [][\A n \in NodeIds :
             (node_live[n] /\ ~node_live'[n]) => GuardsInto(n) = {}]_vars
    /\ [](\A n \in NodeIds : ~node_live[n] => GuardsInto(n) = {})

\* the reader whose guard is left dangling registered in the slot the
\* writer did not wait on, or in the waited slot after the writer's check
FreedUnderUnwaitedReader ==
    [][\A n \in NodeIds, t \in Threads :
          (node_live[n] /\ ~node_live'[n] /\ rpc[t] = "c_free") =>
              \A g \in GuardsInto(n) :
                  \/ read_guards[g[1]][g[2]].borrow_count_index
                         # wg[t].borrow_count_index
                  \/ borrow_count[wg[t].borrow_count_index] > 0]_vars

\* ---------------------------------------------------- RcuLock index record
\* positions of a write-guard drop after its fetch_xor
Toggled == {"d_dec", "d_wait", "c_load", "c_buf", "c_promote", "c_null",
            "c_restore", "c_free", "d_unlock"}

\* the index agrees with the one recorded in the write guard until the
\* guard's drop toggles it, and differs from it for the rest of the drop
IndexRecorded ==
    /\ current_borrow_count_index \in {0, 1}
    /\ \A t \in Threads :
          /\ (wg[t].st = "held" \/ rpc[t] \in {"w_inc", "d_toggle"})
                 => current_borrow_count_index = wg[t].borrow_count_index
          /\ rpc[t] \in Toggled
                 => current_borrow_count_index = 1 - wg[t].borrow_count_index

\* the index changes only in the fetch_xor of a write-guard drop, and a
\* writer records it only while it holds am_writing
IndexSteps ==
    /\ current_borrow_count_index' # current_borrow_count_index =>
           \E t \in Threads :
               StepOfWriter(t) /\ rpc[t] = "d_toggle" /\ rpc'[t] = "d_dec"
    /\ \A t \in Threads :
           wg'[t].borrow_count_index # wg[t].borrow_count_index =>
               \/ rpc[t] = "w_load" /\ wg[t].st = "acquiring" /\ am_writing
               \/ rpc[t] = "d_unlock"

\* C27: while a write guard exists the current index equals the index the
\* guard recorded; the index is toggled only by a write-guard release,
\* once per write cycle; a writer records its index only after winning
\* am_writing; the index is always 0 or 1.
C27_IndexRecorded == []IndexRecorded /\ [][IndexSteps]_vars

\* a write guard of the second write cycle is held: it recorded index 1
C27_Witness ==
    \E t \in Threads :
        /\ wg[t].st = "held" /\ rpc[t] = "idle"
        /\ wg[t].borrow_count_index = 1 /\ current_borrow_count_index = 1

\* ------------------------------------------------ RcuLock borrow accounting
\* read guards registered in slot i: live guards that recorded it, and
\* read() calls that have incremented it and not yet returned their guard
ReadersIn(i) ==
    Cardinality({g \in LiveReadGuards :
                    read_guards[g[1]][g[2]].borrow_count_index = i})
    + Cardinality({t \in Threads : rpc[t] = "r_deref" /\ r_index[t] = i})

\* write guards registered in slot i: incremented and not yet decremented
WritersIn(i) ==
    Cardinality({t \in Threads :
                    /\ wg[t].borrow_count_index = i
                    /\ \/ wg[t].st = "held"
                       \/ rpc[t] \in {"d_toggle", "d_dec"}})

\* C28: every guard increments one slot at acquisition and decrements the
\* same slot once at release: no slot goes below 0, each slot equals the
\* number of guards registered in it, and with no guard live and no
\* operation in progress both slots are 0.
C28_BorrowAccounting ==
    /\ \A i \in 0..1 :
          /\ borrow_count[i] >= 0
          /\ borrow_count[i] = ReadersIn(i) + WritersIn(i)
    /\ Quiescent => \A i \in 0..1 : borrow_count[i] = 0

\* guards are registered in both slots at once
C28_Witness ==
    /\ borrow_count[0] > 0 /\ borrow_count[1] > 0
    /\ \E t \in Threads : wg[t].st = "held"
    /\ LiveReadGuards # {}

\* ---------------------------------------------------- RcuLock self-deadlock
\* thread t is dropping a write guard while it holds a read guard that is
\* registered in the slot the drop waits on
DoomedDrop(t) ==
    /\ wg[t].st = "releasing"
    /\ rpc[t] \in {"d_toggle", "d_dec", "d_wait"}
    /\ \E k \in GuardSlots :
          /\ read_guards[t][k].live
          /\ read_guards[t][k].borrow_count_index = wg[t].borrow_count_index

\* such a drop never gets past its wait loop and am_writing stays set
NeverCompletes ==
    \A t \in Threads : DoomedDrop(t) => (DoomedDrop(t)' /\ am_writing /\ am_writing')

\* while it lasts write() of another thread stays in its loop and
\* try_write() gets None
WritersLockedOut ==
    \A t, u \in Threads :
        (DoomedDrop(t) /\ u # t) =>
            /\ rpc[u] = "w_swap" => rpc'[u] = "w_swap"
            /\ rpc[u] = "tw_swap" => rpc'[u] \in {"tw_swap", "tw_none"}
            /\ wg'[u].st = "none"

\* C29: a thread that drops a write guard while it still holds a read
\* guard registered in the writer's pre-toggle slot never completes the
\* drop; am_writing stays true for ever and every later write() spins for
\* ever; nothing in the library prevents the situation.
C29_SelfDeadlock == [][NeverCompletes /\ WritersLockedOut]_vars

\* the drop spins on its own read guard and another thread's write() is
\* spinning on am_writing
C29_Witness ==
    \E t, u \in Threads :
        /\ DoomedDrop(t) /\ rpc[t] = "d_wait"
        /\ borrow_count[wg[t].borrow_count_index] = 1
        /\ u # t /\ rpc[u] = "w_swap" /\ am_writing

\* ------------------------------------------- TicketMutex counter wrap-around
\* tickets drawn and not yet released: those of live guards and those
\* lock() is waiting on
Outstanding == TicketGuardCount + Cardinality({t \in Threads : tpc[t] = "t_spin"})

\* no acquisition and no release has failed
NothingFailed == \A t \in Threads : tpc[t] # "panicked"

\* exclusion and success, with fewer than 2^w tickets outstanding
WrapKeepsExclusion ==
    Outstanding < TicketModulus =>
        (AtMostOneTicketGuard /\ NoSharedTicket /\ NothingFailed)

\* admission in ticket order modulo 2^w, with fewer than 2^w outstanding
WrapKeepsOrder ==
    Outstanding < TicketModulus =>
        \A t \in Threads : \A b \in TicketValues :
            Acquires(t, b) =>
                (TicketGuardCount = 0 /\ b = next_expected % TicketModulus)

\* C30: with w-bit counters, across the wrap of next_ticket from 2^w - 1 to
\* 0, mutual exclusion and FIFO admission are preserved and no acquisition
\* or release fails, provided fewer than 2^w tickets are outstanding.
C30_TicketWrap == []WrapKeepsExclusion /\ [][WrapKeepsOrder]_vars

\* the same for builds that do not check arithmetic overflow
TicketWrapUnchecked ==
    /\ [](~overflow_checks => WrapKeepsExclusion)
    /\ [][~overflow_checks => WrapKeepsOrder]_vars

\* a guard is held after next_ticket has wrapped, in an unchecked build
HeldAfterWrap ==
    wrapped /\ ~overflow_checks /\ TicketGuardCount = 1 /\ next_serving = 0

\* ------------------------------------------- KernelLockAction on one CPU
\* guards the CPU's thread holds plus its acquisitions in progress
HeldOnCpu ==
    RcuHeld(KernelThread) + SpinHeld(KernelThread) + TicketHeld(KernelThread)

\* a lock has called before_lock and push_off has not yet counted it
PushDue ==
    \/ lock_depth[KernelThread] > open_pushes
    \/ kpc \in {"push_off", "push_cpu"}

\* a lock has called after_lock and pop_off has not yet been entered
PopDue == lock_depth[KernelThread] < open_pushes

\* noff counts the guards and acquisitions, up to the call of push_off or
\* pop_off that is being executed
NoffCountsGuards == noff = HeldOnCpu - Bit(PushDue) + Bit(PopDue)

InterruptsOffInside == noff > 0 => ~sie

\* C31: with KernelLockAction on one CPU whose noff starts at 0, noff is
\* the number of guards held plus acquisitions in progress on that CPU
\* whenever the CPU is outside push_off and pop_off (inside them it differs
\* by the one call being executed), and interrupts are disabled whenever
\* noff > 0: while a lock() or write() spins, after a failed try_* has
\* returned, and whatever the order in which guards are dropped.
C31_KernelGuardCount ==
    /\ NoffCountsGuards
    /\ InterruptsOffInside
    /\ kpc # "panicked"

\* the count holds as long as `ticket + 1` has not overflowed
GuardCountUnlessPanicked ==
    (\A t \in Threads : tpc[t] # "panicked") => C31_KernelGuardCount

\* the count holds in builds without overflow checks
GuardCountUnchecked == ~overflow_checks => C31_KernelGuardCount

\* the CPU holds a guard of one lock and spins in lock() on the SpinMutex
\* held by another CPU, with interrupts off that were on at the start
SpinningUnderGuard ==
    /\ spc[KernelThread] = "s_spin" /\ spin_guards[KernelThread] = 0
    /\ GuardsOf(KernelThread) = 1
    /\ CpuReady /\ noff = 2 /\ ~sie /\ intr_before

\* a failed try_lock has returned on the CPU, which holds nothing: noff is
\* back to 0 and interrupts are on again
RestoredAfterFailedTry ==
    /\ CpuReady /\ HeldOnCpu = 0 /\ noff = 0 /\ sie
    /\ ~InCall(KernelThread)
    /\ \E t \in Threads \ {KernelThread} : spin_guards[t] = 1
    /\ interrupt_enable

\* the guard drop of the TicketMutex has panicked on the CPU, which holds
\* nothing and keeps interrupts off
PanicLeavesInterruptsOff ==
    /\ tpc[KernelThread] = "panicked" /\ HeldOnCpu = 0
    /\ noff > 0 /\ ~sie /\ intr_before /\ CpuReady
====
